---------------------------- MODULE Spec2Model ----------------------------
(***************************************************************************)
(* Bulk synchronisation client and reconciliation engine of the daily     *)
(* e-mail activity report.                                                 *)
(*                                                                         *)
(*   SpecBulk : one bulk export stream (core/bulk/bulk_email_send.py,      *)
(*              core/bulk/bulk_bouncebacks.py): define -> sync -> poll ->  *)
(*              paginated download, against an arbitrary vendor.           *)
(*   Spec     : one run of generate_daily_report                           *)
(*              (core/bulk/process_data_bulk.py) over the streams that     *)
(*              fetch_and_save_data (core/bulk/fetch_data_bulk.py) hands   *)
(*              it.                                                        *)
(*   SpecCache: the contact cache (core/rest/fetch_data.py): calls of      *)
(*              fetch_contacts_batch and the cache load and forward        *)
(*              backfill of a report run, one after the other, on cache    *)
(*              files whose writes may fail.                               *)
(*   Spec also runs the command-line entry point (scripts/run_report.py)  *)
(*   after the report run.                                                 *)
(*   SpecPager     : one call of the OData pager fetch_data.               *)
(*   SpecSession   : first calls of get_http_session by the threads of a   *)
(*                   worker pool, statement by statement.                  *)
(*   SpecParallel  : daily reports run in threads on one contact cache.    *)
(*   SpecContacts  : one call of fetch_contacts_bulk.                      *)
(*   SpecExportLive: fetch_activity_export with fair steps against a       *)
(*                   vendor that need not end the data.                    *)
(***************************************************************************)
EXTENDS Integers, Sequences, FiniteSets, TLC

VARIABLES
    \* ---- bulk export client ----
    stream,       \* which client runs: "EmailSend" or "Bounceback"
    pc,           \* position of the client in the protocol
    attempt,      \* number of sync status requests issued so far
    offset,       \* offset of the next data page
    all_items,    \* records accumulated by the download loop
    requests,     \* every HTTP request issued, in order, with its answer
    outcome,      \* how the export ended ("" while it runs)
    result,       \* list handed to the caller of the fetch_*_bulk function
    raised,       \* TRUE iff an exception escaped the fetch_*_bulk function
    \* ---- generate_daily_report ----
    rpc,                  \* position of the run
    cache_file,           \* content of the contact cache file
    data,                 \* what fetch_and_save_data returned
    pool_exc,             \* keys of the worker-pool fetches that raised
    contact_cache,        \* in-memory contact cache
    contact_lookup,       \* contactId -> contact attributes
    df_sends,             \* the rows of the working frame
    campaigns_with_sends, \* asset ids with a send row at forward detection
    forward_contacts,     \* (assetId, contactId) keys inferred as forwards
    report,               \* rows written to the report file
    ret,                  \* what generate_daily_report returned
    error,                \* exception that left generate_daily_report
    cli_pc,               \* position of the command-line entry point
    exit_status,          \* exit status of the process
    printed,              \* what the entry point printed about the run
    \* ---- the contact cache and fetch_contacts_batch ----
    cpc,               \* position of the process that uses the cache
    ncalls,            \* cache resolutions started so far
    gz_file,           \* the compressed cache file (CONTACT_CACHE_FILE)
    json_file,         \* data/cache/contact_cache.json, backup and old format
    write_failed,      \* files whose write raised in the last save_contact_cache
    contact_ids,       \* ids asked from fetch_contacts_batch
    use_cache,         \* its use_cache argument
    cache,             \* its copy of the cache
    contacts_to_fetch, \* ids it fetches from the contact API
    live_fetches,      \* ids of the per-contact requests it issued
    newly_fetched,     \* what these requests returned
    contacts,          \* what fetch_contacts_batch returns
    run_cache,         \* contact_cache of a report run (line 134)
    \* ---- the OData pager fetch_data ----
    fd_pc,          \* position of fetch_data
    access_token,   \* TRUE iff get_valid_access_token gives a token
    page,           \* number of the page to request
    all_data,       \* elements accumulated so far
    page_requests,  \* the page numbers requested, in order
    responses,      \* the answer to each request, in order
    fd_ret,         \* what fetch_data returned
    \* ---- the shared HTTP session ----
    http_session,   \* the module global _http_session (0 is None)
    t_pc,           \* position of each worker thread in get_http_session
    new_session,    \* the Session a thread constructed and has not stored yet
    created,        \* number of Session objects constructed so far
    mounted,        \* the sessions that got the pooled adapters mounted
    session_of,     \* the session get_http_session returned to each thread
    \* ---- daily reports run in the threads of one process ----
    par_pc,         \* position of each report run
    par_cache,      \* contact_cache of each run (process_data_bulk.py 134)
    par_added,      \* the contacts each run added to its contact_cache
    \* ---- the download loop past the pages the request log keeps ----
    unlogged        \* data requests issued after the log was full, modulo 2

bulkVars == <<stream, pc, attempt, offset, all_items, requests, outcome, result, raised>>

cliVars == <<cli_pc, exit_status, printed>>

reportVars == <<rpc, cache_file, data, pool_exc, contact_cache, contact_lookup,
                df_sends, campaigns_with_sends, forward_contacts, report, ret, error,
                cliVars>>

cacheVars == <<cpc, ncalls, gz_file, json_file, write_failed, contact_ids, use_cache, cache,
               contacts_to_fetch, live_fetches, newly_fetched, contacts, run_cache>>

pagerVars == <<fd_pc, access_token, page, all_data, page_requests, responses, fd_ret>>

sessVars == <<http_session, t_pc, new_session, created, mounted, session_of>>

parVars == <<par_pc, par_cache, par_added>>

\* the variables of the other components
extVars == <<pagerVars, sessVars, parVars, unlogged>>

\* what the pager, the session getter and the parallel runs leave alone
outsidePager == <<bulkVars, reportVars, cacheVars, sessVars, parVars, unlogged>>
outsideSession == <<bulkVars, reportVars, cacheVars, pagerVars, parVars, unlogged>>
outsideParallel == <<bulkVars, reportVars, pagerVars, sessVars, unlogged,
                     cpc, ncalls, contact_ids, use_cache, cache, contacts_to_fetch,
                     live_fetches, newly_fetched, contacts, run_cache>>

vars == <<bulkVars, reportVars, cacheVars, extVars>>

\* fetch_data is not called
PagerIdle ==
    /\ fd_pc = "off"
    /\ access_token = FALSE
    /\ page = 1
    /\ all_data = <<>>
    /\ page_requests = <<>>
    /\ responses = <<>>
    /\ fd_ret = <<>>

\* no thread calls get_http_session
SessionIdle ==
    /\ http_session = 0
    /\ t_pc = <<>>
    /\ new_session = <<>>
    /\ created = 0
    /\ mounted = {}
    /\ session_of = <<>>

\* no report runs in a thread
ParallelIdle ==
    /\ par_pc = <<>>
    /\ par_cache = <<>>
    /\ par_added = <<>>

\* the other components do not run; no data request is unlogged
ExtIdle == PagerIdle /\ SessionIdle /\ ParallelIdle /\ unlogged = 0

-----------------------------------------------------------------------------
(* Bounds of the model *)

\* polling attempts allowed (config.SYNC_MAX_ATTEMPTS)
SYNC_MAX_ATTEMPTS == 3
\* config.API_PAGE_SIZE and config.API_MAX_PAGES: the page-size cap of the
\* OData pager and the number of pages one call may request
API_PAGE_SIZE == 2
API_MAX_PAGES == 3
\* worker threads that call get_http_session at the same time
MaxWorkers == 3
\* daily reports that run_weekly_reports_parallel has in progress at a time
MaxRuns == 2

\* page size of the data endpoint (stands for limit = 5000 / 1000)
limit == 2

\* data pages one export may request before the vendor has to end the data
MaxPages == 3

\* records in the fetched send, open and click streams
MaxSends == 2
MaxOpens == 2
MaxClicks == 1
\* most bounceback records in a run
MaxBounces == 2

\* cache resolutions of one process
MaxCalls == 2

\* ids in one call of fetch_contacts_batch
MaxIds == 2

-----------------------------------------------------------------------------
(* Bulk export client *)

Streams == {"EmailSend", "Bounceback"}

\* GET /syncs/{id}: an HTTP error, or a body with one of these statuses
PollAnswers == {"http_error", "pending", "success", "error"}

\* GET /syncs/{id}/data?offset&limit
DataAnswers ==
    {[kind |-> k, n |-> 0, hasMore |-> FALSE] : k \in {"non200", "badjson"}}
    \cup {[kind |-> "ok", n |-> n, hasMore |-> h] : n \in 0..limit, h \in BOOLEAN}

\* the n records the vendor serves from offset off
ItemsAt(off, n) == [i \in 1..n |-> off + i]

Request(req, ok, status, off, items, hasMore) ==
    [req |-> req, ok |-> ok, status |-> status, offset |-> off,
     items |-> items, hasMore |-> hasMore]

\* the wrapper's except clause: every exception of the export becomes []
CaughtRaised_rethrow(exc) == exc
CaughtRaised(exc) == FALSE

\* the export returned normally with the list lst
Returned(lst, how) ==
    /\ pc' = "returned"
    /\ outcome' = how
    /\ result' = lst
    /\ raised' = FALSE

\* an exception left fetch_activity_export / the body of the try block
Raise(how) ==
    /\ pc' = "returned"
    /\ outcome' = how
    /\ result' = <<>>
    /\ raised' = CaughtRaised(TRUE)

\* after a non-success poll answer: does the polling loop end the export?
PollFails_ignoreError(s, status) == FALSE
PollFails(s, status) == s = "EmailSend" /\ status = "error"

\* after a parsed data page: does the download loop stop?
LastPage_shortOrNoMore(s, n, hasMore) == n < limit \/ ~hasMore
LastPage(s, n, hasMore) ==
    IF s = "EmailSend" THEN ~hasMore ELSE n < limit

\* raise_for_status() after the export definition
DefineChecked_none(ok) == TRUE
DefineChecked(ok) == ok

\* get_valid_access_token() at the top of the try block
GetToken ==
    /\ pc = "start"
    /\ \E ok \in BOOLEAN :
        IF ok THEN /\ pc' = "define"
                   /\ UNCHANGED <<outcome, result, raised>>
              ELSE Raise("auth_error")
    /\ UNCHANGED <<stream, attempt, offset, all_items, requests>>
    /\ UNCHANGED <<reportVars, cacheVars, extVars>>

\* Step 1: POST the export definition
Define ==
    /\ pc = "define"
    /\ \E ok \in BOOLEAN :
        /\ requests' = Append(requests, Request("define", ok, "", 0, <<>>, FALSE))
        /\ IF DefineChecked(ok)
             THEN /\ pc' = "sync"
                  /\ UNCHANGED <<outcome, result, raised>>
             ELSE Raise("export_error")
    /\ UNCHANGED <<stream, attempt, offset, all_items>>
    /\ UNCHANGED <<reportVars, cacheVars, extVars>>

\* Step 2: POST the sync
SyncStart ==
    /\ pc = "sync"
    /\ \E ok \in BOOLEAN :
        /\ requests' = Append(requests, Request("sync", ok, "", 0, <<>>, FALSE))
        /\ IF ok
             THEN /\ pc' = "poll"
                  /\ UNCHANGED <<outcome, result, raised>>
             ELSE Raise("sync_start_error")
    /\ UNCHANGED <<stream, attempt, offset, all_items>>
    /\ UNCHANGED <<reportVars, cacheVars, extVars>>

\* Step 3: one iteration of the polling loop (and the loop's else clause
\* after the last one)
Poll ==
    /\ pc = "poll"
    /\ attempt < SYNC_MAX_ATTEMPTS
    /\ \E a \in PollAnswers :
        /\ attempt' = attempt + 1
        /\ requests' = Append(requests,
                Request("poll", a # "http_error",
                        IF a = "http_error" THEN "" ELSE a, 0, <<>>, FALSE))
        /\ CASE a = "http_error" -> Raise("poll_http_error")
             [] a = "success" ->
                  /\ pc' = "download"
                  /\ UNCHANGED <<outcome, result, raised>>
             [] PollFails(stream, a) -> Returned(<<>>, "sync_error")
             [] OTHER ->
                  IF attempt + 1 = SYNC_MAX_ATTEMPTS
                    THEN Returned(<<>>, "sync_timeout")
                    ELSE /\ pc' = "poll"
                         /\ UNCHANGED <<outcome, result, raised>>
    /\ UNCHANGED <<stream, offset, all_items>>
    /\ UNCHANGED <<reportVars, cacheVars, extVars>>

DataRequests == SelectSeq(requests, LAMBDA r : r.req = "data")

\* Step 4: one iteration of the download loop
Download ==
    /\ pc = "download"
    /\ Len(DataRequests) < MaxPages
    /\ \E d \in DataAnswers :
        \* the vendor's data ends within MaxPages pages
        /\ Len(DataRequests) + 1 = MaxPages =>
              (d.kind = "ok" => LastPage(stream, d.n, d.hasMore))
        /\ LET items == IF d.kind = "ok" THEN ItemsAt(offset, d.n) ELSE <<>>
           IN
           /\ requests' = Append(requests,
                    Request("data", d.kind = "ok", d.kind, offset, items, d.hasMore))
           /\ all_items' = all_items \o items
           /\ IF d.kind = "ok" /\ ~LastPage(stream, d.n, d.hasMore)
                THEN /\ offset' = offset + limit
                     /\ pc' = "download"
                     /\ UNCHANGED <<outcome, result, raised>>
                ELSE /\ offset' = offset
                     /\ Returned(all_items \o items,
                                 IF d.kind = "ok" THEN "ok" ELSE "download_error")
    /\ UNCHANGED <<stream, attempt>>
    /\ UNCHANGED <<reportVars, cacheVars, extVars>>

\* a file that does not exist
Absent == [exists |-> FALSE, readable |-> FALSE, content |-> <<>>]

\* no process uses the contact cache
CacheIdle ==
    /\ cpc = "off"
    /\ ncalls = 0
    /\ gz_file = Absent
    /\ json_file = Absent
    /\ write_failed = {}
    /\ contact_ids = <<>>
    /\ use_cache = TRUE
    /\ cache = <<>>
    /\ contacts_to_fetch = <<>>
    /\ live_fetches = <<>>
    /\ newly_fetched = <<>>
    /\ contacts = <<>>
    /\ run_cache = <<>>

\* no report run takes place
ReportIdle ==
    /\ rpc = "idle"
    /\ cache_file = <<>>
    /\ data = <<>>
    /\ pool_exc = {}
    /\ contact_cache = <<>>
    /\ contact_lookup = <<>>
    /\ df_sends = {}
    /\ campaigns_with_sends = {}
    /\ forward_contacts = {}
    /\ report = {}
    /\ ret = "None"
    /\ error = ""
    /\ cli_pc = "off"
    /\ exit_status = 0
    /\ printed = ""

InitBulk ==
    /\ ExtIdle
    /\ stream \in Streams
    /\ pc = "start"
    /\ attempt = 0
    /\ offset = 0
    /\ all_items = <<>>
    /\ requests = <<>>
    /\ outcome = ""
    /\ result = <<>>
    /\ raised = FALSE
    /\ ReportIdle
    /\ CacheIdle

NextBulk == GetToken \/ Define \/ SyncStart \/ Poll \/ Download

SpecBulk == InitBulk /\ [][NextBulk]_vars

\* no bulk export is followed step by step during a report run
BulkIdle ==
    /\ stream = "EmailSend"
    /\ pc = "idle"
    /\ attempt = 0
    /\ offset = 0
    /\ all_items = <<>>
    /\ requests = <<>>
    /\ outcome = ""
    /\ result = <<>>
    /\ raised = FALSE

-----------------------------------------------------------------------------
(* Input streams of one report run *)

Range(f) == {f[i] : i \in DOMAIN f}

\* campaigns never reported
EXCLUDED_CAMPAIGN_IDS == {"17056", "17076"}

\* the report is generated for this day
target_date == "2025-01-10"

\* pd.to_datetime(..., errors='coerce') in hours since 2025-01-09 00:00;
\* NaT for anything unparseable
NaT == -1
Timestamps ==
    [t \in {"2025-01-09 09:00:00", "2025-01-10 09:00:00",
            "2025-01-10 12:00:00", "2025-01-10 15:00:00", "2025-01-10"} |->
        CASE t = "2025-01-09 09:00:00" -> 9
          [] t = "2025-01-10 09:00:00" -> 33
          [] t = "2025-01-10 12:00:00" -> 36
          [] t = "2025-01-10 15:00:00" -> 39
          [] t = "2025-01-10" -> 24]
to_datetime(s) == IF s \in DOMAIN Timestamps THEN Timestamps[s] ELSE NaT
\* .dt.date / parser.parse(...).date(): the day of a timestamp
date(t) == t \div 24
target_date_obj == date(to_datetime(target_date))

\* the address the send export carries for a contact (lower case), the
\* address the contact API returns for it (as typed by the contact)
BulkEmail == [c \in {"A", "B", "C"} |->
    CASE c = "A" -> "a@ok.com" [] c = "B" -> "b@hp.com" [] c = "C" -> "c@ok.com"]
LiveEmail == [c \in {"A", "B", "C"} |->
    CASE c = "A" -> "A@ok.com" [] c = "B" -> "b@hp.com" [] c = "C" -> "C@ok.com"]

\* str.lower()
Lower(e) ==
    CASE e = "A@ok.com" -> "a@ok.com"
      [] e = "C@ok.com" -> "c@ok.com"
      [] e = "Spam@test.com" -> "spam@test.com"
      [] OTHER -> e

\* addresses that contain config.EXCLUDE_EMAIL_DOMAIN, and the addresses of
\* config.EXCLUDE_TEST_EMAILS
EXCLUDE_EMAIL_DOMAIN == {"b@hp.com"}
EXCLUDE_TEST_EMAILS == {"spam@test.com"}

\* one record of the EmailSend export (fields of bulk_email_send.py)
Send(ext, asset, contact, campaign, when) ==
    [externalId |-> ext, assetId |-> asset, contactId |-> contact,
     emailSendType |-> "EmailSend", activityDate |-> when,
     campaignId |-> campaign, emailAddress |-> BulkEmail[contact]]

\* the sends the vendor may report, up to their activity id: (assetId,
\* contactId, campaignId, activityDate); the last one carries no assetId
SendShapes ==
    { <<"1", "A", "100", "2025-01-10 09:00:00">>,
      <<"1", "A", "100", "2025-01-10 15:00:00">>,
      <<"1", "A", "100", "2025-01-09 09:00:00">>,
      <<"1", "A", "100", "not a date">>,
      <<"1", "A", "",    "2025-01-10 09:00:00">>,
      <<"1", "B", "100", "2025-01-10 09:00:00">>,
      <<"1", "C", "100", "2025-01-10 09:00:00">>,
      <<"17056", "A", "200", "2025-01-10 09:00:00">>,
      <<"", "A", "100", "2025-01-10 09:00:00">> }

\* activity ids: "" when the export carries none
ExternalIds == <<"x1", "x2", "x3">>
UsedIds(sends) == {s.externalId : s \in Range(sends)} \ {""}
\* ids are named in order of first appearance
NextIds(sends) ==
    {""} \cup {ExternalIds[i] : i \in 1..(Cardinality(UsedIds(sends)) + 1)}

RECURSIVE SendLists(_)
SendLists(n) ==
    IF n = 0 THEN {<<>>}
    ELSE LET shorter == SendLists(n - 1) IN
         shorter \cup
         UNION { { Append(l, Send(x, sh[1], sh[2], sh[3], sh[4])) :
                     x \in NextIds(l), sh \in SendShapes }
                 : l \in {p \in shorter : Len(p) = n - 1} }

\* one record of the emailOpen / emailClickthrough OData feeds
Open(asset, contact) ==
    [emailID |-> asset, contactID |-> contact,
     openDateHour |-> "2025-01-10 12:00:00"]
Click(asset, contact) ==
    [emailID |-> asset, contactID |-> contact,
     clickDateHour |-> "2025-01-10 12:00:00"]

OpenKeys == << <<"1", "A">>, <<"1", "C">>, <<"17056", "C">> >>
ClickKeys == << <<"1", "A">>, <<"1", "C">> >>

\* lists of at most n keys of ks, in feed order
RECURSIVE KeyLists(_, _)
KeyLists(ks, n) ==
    IF n = 0 THEN {<<>>}
    ELSE LET shorter == KeyLists(ks, n - 1) IN
         shorter \cup
         UNION { { Append(l, i) : i \in {j \in DOMAIN ks :
                                            \A k \in 1..(n - 1) : l[k] <= j} }
                 : l \in {p \in shorter : Len(p) = n - 1} }

OpenLists == { [i \in DOMAIN l |-> Open(OpenKeys[l[i]][1], OpenKeys[l[i]][2])]
                 : l \in KeyLists(OpenKeys, MaxOpens) }
ClickLists == { [i \in DOMAIN l |-> Click(ClickKeys[l[i]][1], ClickKeys[l[i]][2])]
                 : l \in KeyLists(ClickKeys, MaxClicks) }

\* one record of the bounceback OData feed
Bounce(asset, contact, isHard) ==
    [emailID |-> asset, contactID |-> contact, isHardBounceback |-> isHard]

BounceShapes == << <<"1", "A", TRUE>>, <<"1", "A", FALSE>> >>
BounceLists ==
    { [i \in DOMAIN l |-> Bounce(BounceShapes[l[i]][1], BounceShapes[l[i]][2],
                                  BounceShapes[l[i]][3])]
        : l \in KeyLists(BounceShapes, MaxBounces) }

\* the contact cache file before the run: contactId -> contact record
Contact(email) == [emailAddress |-> email]
CacheFiles ==
    { <<>>, [c \in {"C"} |-> Contact("C@ok.com")],
            [c \in {"C"} |-> Contact("Spam@test.com")] }

\* the four fetches run in the worker pool
PoolKeys == {"bouncebacks", "campaign_analysis", "campaign_users", "email_asset_data"}
PoolFailures == {{}} \cup {{k} : k \in PoolKeys}

-----------------------------------------------------------------------------
(* fetch_and_save_data *)

\* results[key] after the pool: the fetched dict, or None after an exception
PoolResult(failed, value) ==
    [none |-> failed, value |-> IF failed THEN <<>> ELSE value]

\* x.get("value", []) on a pool result: AttributeError on None
GetRaises(x) == x.none

\* lines 43-44: the send stream; [] when the export failed
FetchSends ==
    /\ rpc = "start"
    /\ \E sends \in SendLists(MaxSends) :
         data' = [email_sends |-> sends]
    /\ rpc' = "sends_fetched"
    /\ UNCHANGED <<cache_file, pool_exc, contact_cache, contact_lookup, df_sends,
                   campaigns_with_sends, forward_contacts, report, ret, error>>
    /\ UNCHANGED <<bulkVars, cacheVars, cliVars, extVars>>

\* lines 47-178: opens and clicks of the e-mails sent, the worker pool, and
\* the unpacking of its results
FetchRest ==
    /\ rpc = "sends_fetched"
    /\ \E opens \in OpenLists, clicks \in ClickLists, bounces \in BounceLists,
          exc \in PoolFailures :
         LET email_ids == {s.assetId : s \in Range(data.email_sends)}
             results == [k \in PoolKeys |->
                            PoolResult(k \in exc, IF k = "bouncebacks" THEN bounces
                                                                       ELSE <<>>)]
         IN
         /\ \A o \in Range(opens) : o.emailID \in email_ids
         /\ \A c \in Range(clicks) : c.emailID \in email_ids
         /\ pool_exc' = exc
         /\ IF \E k \in PoolKeys : GetRaises(results[k])
              THEN /\ rpc' = "crashed"
                   /\ error' = "AttributeError"
                   /\ UNCHANGED data
              ELSE /\ rpc' = "fetched"
                   /\ data' = [email_sends |-> data.email_sends,
                               email_opens |-> opens,
                               email_clickthroughs |-> clicks,
                               bouncebacks |-> results["bouncebacks"].value]
                   /\ UNCHANGED error
    /\ UNCHANGED <<cache_file, contact_cache, contact_lookup, df_sends,
                   campaigns_with_sends, forward_contacts, report, ret>>
    /\ UNCHANGED <<bulkVars, cacheVars, cliVars, extVars>>

-----------------------------------------------------------------------------
(* generate_daily_report, steps 1-2: contact lookup and the send frame *)

\* generate_daily_report returned None without writing a report
Abort ==
    /\ rpc' = "aborted"
    /\ ret' = "None"
    /\ UNCHANGED error

\* an exception left generate_daily_report
Crash(exc) ==
    /\ rpc' = "crashed"
    /\ error' = exc
    /\ UNCHANGED ret

\* the first / last of a set of list positions
FirstIndex(S) == CHOOSE i \in S : \A j \in S : i <= j
LastIndex(S) == CHOOSE i \in S : \A j \in S : j <= i

\* lines 138-160: the first send of each contact gives its lookup entry,
\* with the cached address when the contact is cached
LookupFromSends(email_sends, cached) ==
    [cid \in {s.contactId : s \in Range(email_sends)} |->
        LET send == email_sends[FirstIndex({i \in DOMAIN email_sends :
                                                email_sends[i].contactId = cid})]
        IN  Contact(IF cid \in DOMAIN cached THEN cached[cid].emailAddress
                                             ELSE send.emailAddress)]

\* line 172
email_sends_filtered(email_sends) ==
    SelectSeq(email_sends, LAMBDA s : s.campaignId # "")

\* lines 183-203: the dedup key of a send
send_key(s) ==
    IF s.externalId # "" THEN <<s.externalId>>
    ELSE <<s.assetId, s.contactId, s.emailSendType, s.activityDate>>

\* lines 177-204 without the dict: every record is kept
unique_sends_dict_all(sends) ==
    { [key |-> send_key(sends[i]), ord |-> i, rec |-> sends[i]] : i \in DOMAIN sends }

\* lines 177-204: one entry per key, at the position of the key's first
\* record and with the content of its last record
unique_sends_dict(sends) ==
    { [key |-> k,
       ord |-> FirstIndex({i \in DOMAIN sends : send_key(sends[i]) = k}),
       rec |-> sends[LastIndex({i \in DOMAIN sends : send_key(sends[i]) = k})]]
      : k \in {send_key(sends[i]) : i \in DOMAIN sends} }

\* line 235: list(unique_sends_dict.values()), the records in the order in
\* which their keys entered the dict
unique_sends_list(sends) ==
    LET d == unique_sends_dict(sends)
        at(i) == CHOOSE u \in d : Cardinality({v \in d : v.ord < u.ord}) = i - 1
    IN  [i \in 1..Cardinality(d) |-> at(i).rec]

\* lines 235, 250, 266-267: a row of df_sends
SendRow(u) ==
    [key |-> u.key, ord |-> u.ord,
     assetId_str |-> u.rec.assetId, contactId_str |-> u.rec.contactId,
     emailSendType |-> u.rec.emailSendType,
     activityDateParsed |-> to_datetime(u.rec.activityDate),
     emailAddress |-> u.rec.emailAddress,
     hard |-> 0, soft |-> 0, total_bb |-> 0, total_clicks |-> 0, total_opens |-> 0]

\* line 255: the send took place on the target date
on_target_date_any(row) == TRUE
on_target_date(row) == date(row.activityDateParsed) = target_date_obj

\* lines 83-269
LoadSends ==
    /\ rpc = "fetched"
    /\ contact_cache' = cache_file
    /\ contact_lookup' = LookupFromSends(data.email_sends, cache_file)
    /\ LET rows == {SendRow(u) : u \in unique_sends_dict(email_sends_filtered(data.email_sends))}
           parsed == {r \in rows : r.activityDateParsed # NaT}
           target == {r \in parsed : on_target_date(r)}
       IN
       CASE data.email_sends = <<>> -> Abort /\ UNCHANGED df_sends
         [] data.email_sends # <<>> /\ rows = {} -> Crash("KeyError") /\ UNCHANGED df_sends
         [] rows # {} /\ parsed = {} -> Abort /\ UNCHANGED df_sends
         [] parsed # {} /\ target = {} -> Abort /\ UNCHANGED df_sends
         [] OTHER ->
              /\ df_sends' = target
              /\ rpc' = "sends_loaded"
              /\ UNCHANGED <<ret, error>>
    /\ UNCHANGED <<cache_file, data, pool_exc, campaigns_with_sends,
                   forward_contacts, report>>
    /\ UNCHANGED <<bulkVars, cacheVars, cliVars, extVars>>

-----------------------------------------------------------------------------
(* generate_daily_report, steps 3-5b: bounces, clicks, opens, exclusion *)

\* number of records of an activity feed for one (assetId, contactId) key
CountFor(feed, a, c) ==
    Cardinality({i \in DOMAIN feed : feed[i].emailID = a /\ feed[i].contactID = c})

\* the sum of a group as it is, without the cap
clip_none(n) == n

\* .clip(upper=1)
clip1(n) == IF n > 1 THEN 1 ELSE n

SamePair(r, q) ==
    r.assetId_str = q.assetId_str /\ r.contactId_str = q.contactId_str

\* r stands before q once the frame is sorted by activityDateParsed (rows of
\* equal time keep their frame order)
Before(r, q) ==
    \/ r.activityDateParsed < q.activityDateParsed
    \/ r.activityDateParsed = q.activityDateParsed /\ r.ord < q.ord

LastOf(rows) == CHOOSE r \in rows : \A q \in rows : q # r => Before(q, r)
FirstOf(rows) == CHOOSE r \in rows : \A q \in rows : q # r => Before(r, q)

\* lines 298-309: the bounce counts of a key, capped at one
BounceCounts(bouncebacks, a, c) ==
    LET recs == {i \in DOMAIN bouncebacks :
                    bouncebacks[i].emailID = a /\ bouncebacks[i].contactID = c}
    IN  [hard |-> clip1(Cardinality({i \in recs : bouncebacks[i].isHardBounceback})),
         soft |-> clip1(Cardinality({i \in recs : ~bouncebacks[i].isHardBounceback})),
         total_bb |-> clip1(Cardinality(recs))]

\* lines 350-354 with every send of the pair taken as its last
is_last_send_always(df, r) == TRUE

\* lines 350-351: the most recent send of its (assetId, contactId) pair
is_last_send(df, r) == r = LastOf({q \in df : SamePair(q, r)})

\* lines 417-422: time of the first open of a key (ISO strings order as
\* their times do)
firstOpenDate(opens, a, c) ==
    LET times == {to_datetime(opens[i].openDateHour) :
                    i \in {j \in DOMAIN opens :
                             opens[j].emailID = a /\ opens[j].contactID = c}}
    IN  CHOOSE t \in times : \A u \in times : t <= u

\* lines 472-499 (assign_opens_to_correct_send): the row of its pair that
\* keeps the opens of the pair
is_open_send(df, opens, r) ==
    LET group == {q \in df : SamePair(q, r)}
        first_open == firstOpenDate(opens, r.assetId_str, r.contactId_str)
        sends_before_open == {q \in group : q.activityDateParsed <= first_open}
    IN  IF CountFor(opens, r.assetId_str, r.contactId_str) = 0 THEN FALSE
        ELSE IF first_open = NaT THEN r = LastOf(group)
        ELSE IF sends_before_open # {} THEN r = LastOf(sends_before_open)
        ELSE r = FirstOf(group)

\* line 502-505: no group of the frame got the is_open_send column
NoOpenSendColumn(df, opens) ==
    \A r \in df : CountFor(opens, r.assetId_str, r.contactId_str) = 0

\* lines 532-534: pd.to_numeric(assetId).astype(str) is the id itself when
\* every id of the frame is a whole number
NumericIds == {"1", "17056", "17076"}
should_exclude_row(df, r) ==
    /\ \A q \in df : q.assetId_str \in NumericIds
    /\ r.assetId_str \in EXCLUDED_CAMPAIGN_IDS

\* lines 271-363, 463-506, 540-545: the activity columns of a send row
WithActivity(df, r) ==
    LET bb == BounceCounts(data.bouncebacks, r.assetId_str, r.contactId_str)
    IN  [r EXCEPT
           !.hard = bb.hard, !.soft = bb.soft, !.total_bb = bb.total_bb,
           !.total_clicks =
               IF data.email_clickthroughs # <<>> /\ is_last_send(df, r)
                 THEN CountFor(data.email_clickthroughs, r.assetId_str, r.contactId_str)
                 ELSE 0,
           !.total_opens =
               IF data.email_opens # <<>> /\ is_open_send(df, data.email_opens, r)
                 THEN CountFor(data.email_opens, r.assetId_str, r.contactId_str)
                 ELSE 0]

\* lines 271-546
MergeActivity ==
    /\ rpc = "sends_loaded"
    /\ IF data.email_opens # <<>> /\ NoOpenSendColumn(df_sends, data.email_opens)
         THEN /\ Crash("KeyError")
              /\ UNCHANGED df_sends
         ELSE /\ df_sends' = {WithActivity(df_sends, r) :
                                r \in {q \in df_sends : ~should_exclude_row(df_sends, q)}}
              /\ rpc' = "merged"
              /\ UNCHANGED <<ret, error>>
    /\ UNCHANGED <<cache_file, data, pool_exc, contact_cache, contact_lookup,
                   campaigns_with_sends, forward_contacts, report>>
    /\ UNCHANGED <<bulkVars, cacheVars, cliVars, extVars>>

-----------------------------------------------------------------------------
(* generate_daily_report, step 5c: forward detection *)

\* lines 565, 605: activity of the campaigns that have a send row
ActivityFiltered(feed, campaigns) ==
    SelectSeq(feed, LAMBDA o : o.emailID \in campaigns)

\* lines 569-570, 610-611
PairsOfFeed(feed) == {<<o.emailID, o.contactID>> : o \in Range(feed)}
sends_set(df) == {<<r.assetId_str, r.contactId_str>> : r \in df}

\* lines 571, 612: activity keys that are no send
forwards_of_all(activity_set, sent) == activity_set
forwards_of(activity_set, sent) == activity_set \ sent

\* lines 551-620
DetectForwards ==
    /\ rpc = "merged"
    /\ LET campaigns == {r.assetId_str : r \in df_sends}
           opens_set == PairsOfFeed(ActivityFiltered(data.email_opens, campaigns))
           clicks_set == PairsOfFeed(ActivityFiltered(data.email_clickthroughs, campaigns))
       IN
       /\ campaigns_with_sends' = campaigns
       /\ forward_contacts' = forwards_of(opens_set, sends_set(df_sends))
                              \cup forwards_of(clicks_set, sends_set(df_sends))
    /\ rpc' = "forwards_detected"
    /\ UNCHANGED <<cache_file, data, pool_exc, contact_cache, contact_lookup,
                   df_sends, report, ret, error>>
    /\ UNCHANGED <<bulkVars, cacheVars, cliVars, extVars>>

\* lines 623-683: forward contacts enter the lookup from the cache, the
\* others are asked from the contact API, which answers for some of them;
\* what it returns is added to the cache and the cache file rewritten,
\* unless the write fails, which save_contact_cache only reports
ResolveForwardContacts ==
    /\ rpc = "forwards_detected"
    /\ LET unknown == {k[2] : k \in forward_contacts} \ DOMAIN contact_lookup
           from_cache == unknown \cap DOMAIN contact_cache
           contacts_not_in_cache == unknown \ DOMAIN contact_cache
       IN
       \E fetched \in SUBSET contacts_not_in_cache :
          /\ contact_lookup' =
                [c \in DOMAIN contact_lookup \cup from_cache \cup fetched |->
                    IF c \in DOMAIN contact_lookup THEN contact_lookup[c]
                    ELSE IF c \in from_cache
                           THEN Contact(contact_cache[c].emailAddress)
                           ELSE Contact(LiveEmail[c])]
          /\ contact_cache' =
                [c \in DOMAIN contact_cache \cup fetched |->
                    IF c \in fetched THEN Contact(LiveEmail[c]) ELSE contact_cache[c]]
          /\ \E saved \in BOOLEAN :
                cache_file' = IF fetched # {} /\ saved THEN contact_cache' ELSE cache_file
    /\ rpc' = "forwards_resolved"
    /\ UNCHANGED <<data, pool_exc, df_sends, campaigns_with_sends,
                   forward_contacts, report, ret, error>>
    /\ UNCHANGED <<bulkVars, cacheVars, cliVars, extVars>>

-----------------------------------------------------------------------------
(* generate_daily_report, step 5c: forward rows *)

\* order of the contact ids as strings
ContactOrder == <<"A", "B", "C">>
Rank(c) == CHOOSE i \in DOMAIN ContactOrder : ContactOrder[i] = c

\* position of two rows of one campaign in the frame after steps 4 and 5:
\* sorted by contact and time when there are opens, by time when there are
\* only clicks, in dedup order otherwise
FrameBefore(r, q) ==
    IF data.email_opens # <<>>
      THEN \/ Rank(r.contactId_str) < Rank(q.contactId_str)
           \/ r.contactId_str = q.contactId_str /\ Before(r, q)
      ELSE IF data.email_clickthroughs # <<>> THEN Before(r, q)
      ELSE r.ord < q.ord

\* lines 688-694: the date of the first send row of the campaign
campaign_send_date(df, asset_id) ==
    LET campaign_sends == {r \in df : r.assetId_str = asset_id}
    IN  (CHOOSE r \in campaign_sends :
            \A q \in campaign_sends : q # r => FrameBefore(r, q)).activityDateParsed

\* line 757: a forward needs an open or a click
has_activity(opens_count, clicks_count) == opens_count > 0 \/ clicks_count > 0

\* lines 773-792 with the counts one too low
forward_row_less(asset_id, contact_id, email, opens_count, clicks_count, send_date) ==
    [key |-> <<>>, ord |-> 0,
     assetId_str |-> asset_id, contactId_str |-> contact_id,
     emailSendType |-> "EmailForward", activityDateParsed |-> send_date,
     emailAddress |-> email, hard |-> 0, soft |-> 0, total_bb |-> 0,
     total_clicks |-> clicks_count - 1, total_opens |-> opens_count - 1]

\* lines 773-792: the synthetic row of a forward
forward_row(asset_id, contact_id, email, opens_count, clicks_count, send_date) ==
    [key |-> <<>>, ord |-> 0,
     assetId_str |-> asset_id, contactId_str |-> contact_id,
     emailSendType |-> "EmailForward", activityDateParsed |-> send_date,
     emailAddress |-> email, hard |-> 0, soft |-> 0, total_bb |-> 0,
     total_clicks |-> clicks_count, total_opens |-> opens_count]

\* lines 685-820
AddForwardRows ==
    /\ rpc = "forwards_resolved"
    /\ LET opens_filtered == ActivityFiltered(data.email_opens, campaigns_with_sends)
           clicks_filtered == ActivityFiltered(data.email_clickthroughs, campaigns_with_sends)
           opens_count(k) == CountFor(opens_filtered, k[1], k[2])
           clicks_count(k) == CountFor(clicks_filtered, k[1], k[2])
           email(k) == IF k[2] \in DOMAIN contact_lookup
                         THEN contact_lookup[k[2]].emailAddress ELSE ""
           forward_rows ==
              { forward_row(k[1], k[2], email(k), opens_count(k), clicks_count(k),
                            campaign_send_date(df_sends, k[1]))
                : k \in {f \in forward_contacts :
                           /\ f[1] \in campaigns_with_sends
                           /\ has_activity(opens_count(f), clicks_count(f))} }
       IN  df_sends' = df_sends \cup forward_rows
    /\ rpc' = "forwards_added"
    /\ UNCHANGED <<cache_file, data, pool_exc, contact_cache, contact_lookup,
                   campaigns_with_sends, forward_contacts, report, ret, error>>
    /\ UNCHANGED <<bulkVars, cacheVars, cliVars, extVars>>

-----------------------------------------------------------------------------
(* generate_daily_report, steps 7-9: filters, totals, report file *)

IsForward(r) == r.emailSendType \in {"EmailForward", "Forwarded"}

\* line 917: the lower-cased address contains the excluded domain
in_excluded_domain(r) == Lower(r.emailAddress) \in EXCLUDE_EMAIL_DOMAIN

\* line 920: the lower-cased address is a listed test address
is_test_email(r) == Lower(r.emailAddress) \in EXCLUDE_TEST_EMAILS

\* lines 933-937 without the address clauses
incomplete_forward_noActivity(r) ==
    /\ r.emailSendType = "EmailForward"
    /\ r.total_opens = 0 /\ r.total_clicks = 0

\* lines 933-937
incomplete_forward(r) ==
    /\ r.emailSendType = "EmailForward"
    /\ \/ r.emailAddress = ""
       \/ r.total_opens = 0 /\ r.total_clicks = 0

\* line 947: the campaigns that still have a send row
campaigns_after_filtering(kept) ==
    {r.assetId_str : r \in {q \in kept : q.emailSendType = "EmailSend"}}

\* lines 951-954 with no forward removed
forwards_to_remove_none(kept, r) == FALSE

\* lines 951-954: a forward of a campaign without send row
forwards_to_remove(kept, r) ==
    /\ r.emailSendType \in {"EmailForward", "Forwarded"}
    /\ r.assetId_str \notin campaigns_after_filtering(kept)

\* lines 911-956: the rows that stay in the frame
FilteredRows(df) ==
    LET kept == {r \in df : /\ ~in_excluded_domain(r)
                            /\ ~is_test_email(r)
                            /\ ~incomplete_forward(r)}
    IN  {r \in kept : ~forwards_to_remove(kept, r)}

\* lines 963-970
get_proper_cased_email(contact_id, lowercase_email) ==
    LET cached_email == IF contact_id \in DOMAIN contact_lookup
                          THEN contact_lookup[contact_id].emailAddress ELSE ""
    IN  IF cached_email # "" /\ Lower(cached_email) = Lower(lowercase_email)
          THEN cached_email ELSE lowercase_email

\* line 981 with every row counted as a send
TotalSends_always(r) == 1

\* line 981: Total Sends, 0 for a forward and 1 for a send
TotalSends(r) == IF r.emailSendType \in {"Forwarded", "EmailForward"} THEN 0 ELSE 1

\* lines 982-985 without the forward case
TotalDelivered_ignoringForward(r) == IF r.total_bb = 0 THEN 1 ELSE 0

\* lines 982-985 without the test of the bounce count
TotalDelivered_unlessForward(r) ==
    IF r.emailSendType \in {"Forwarded", "EmailForward"} THEN 0 ELSE 1

\* lines 982-985: Total Delivered, 0 for a forward and for a bounced send
TotalDelivered(r) ==
    IF r.emailSendType \in {"Forwarded", "EmailForward"} THEN 0
    ELSE IF r.total_bb = 0 THEN 1 ELSE 0

\* lines 987-988
UniqueOpens(r) == IF r.total_opens > 0 THEN 1 ELSE 0
UniqueClicks(r) == IF r.total_clicks > 0 THEN 1 ELSE 0

\* lines 996-1034, 68-69: a rate column, 0 for a forward and for a zero
\* denominator, else (metric / denominator) * 100 written as a whole number
Rate(r, metric, denominator) ==
    IF r.emailSendType \in {"Forwarded", "EmailForward"} \/ denominator = 0 THEN 0
    ELSE (metric * 100) \div denominator

\* lines 996-1017: the rates over Total Sends
HardBouncebackRate(r) == Rate(r, r.hard, TotalSends(r))
SoftBouncebackRate(r) == Rate(r, r.soft, TotalSends(r))
BouncebackRate(r) == Rate(r, r.total_bb, TotalSends(r))
DeliveredRate(r) == Rate(r, TotalDelivered(r), TotalSends(r))

\* lines 1020-1024 with Total Sends as the denominator
UniqueOpenRate_overSends(r) == Rate(r, UniqueOpens(r), TotalSends(r))

\* lines 1020-1034: the rates over Total Delivered
UniqueOpenRate(r) == Rate(r, UniqueOpens(r), TotalDelivered(r))
ClickthroughRate(r) == Rate(r, r.total_clicks, TotalDelivered(r))
UniqueClickthroughRate(r) == Rate(r, UniqueClicks(r), TotalDelivered(r))

\* lines 972-1034, 1088: the totals and rates of a row and its address as
\* written; the file carries Email ID, Email Address, the totals and the
\* rates, while contactId_str, emailSendType, total_opens and total_clicks
\* stay in the frame
ReportRow(r) ==
    [key |-> r.key, ord |-> r.ord,
     assetId_str |-> r.assetId_str, contactId_str |-> r.contactId_str,
     emailSendType |-> r.emailSendType,
     activityDateParsed |-> r.activityDateParsed,
     emailAddress |-> get_proper_cased_email(r.contactId_str, r.emailAddress),
     Email_Address |-> Lower(get_proper_cased_email(r.contactId_str, r.emailAddress)),
     hard |-> r.hard, soft |-> r.soft, total_bb |-> r.total_bb,
     total_clicks |-> r.total_clicks, total_opens |-> r.total_opens,
     Total_Sends |-> TotalSends(r),
     Total_Delivered |-> TotalDelivered(r),
     Unique_Opens |-> UniqueOpens(r),
     Unique_Clicks |-> UniqueClicks(r),
     Hard_Bounceback_Rate |-> HardBouncebackRate(r),
     Soft_Bounceback_Rate |-> SoftBouncebackRate(r),
     Bounceback_Rate |-> BouncebackRate(r),
     Delivered_Rate |-> DeliveredRate(r),
     Unique_Open_Rate |-> UniqueOpenRate(r),
     Clickthrough_Rate |-> ClickthroughRate(r),
     Unique_Clickthrough_Rate |-> UniqueClickthroughRate(r)]

\* lines 857-1117; DataFrame.apply(axis=1) on a frame without rows (lines
\* 901, 972) gives an empty column or, with an older pandas, a frame whose
\* assignment to one column raises ValueError
FilterAndWrite ==
    /\ rpc = "forwards_added"
    /\ LET rows == FilteredRows(df_sends) IN
       \/ /\ df_sends = {} \/ rows = {}
          /\ Crash("ValueError")
          /\ UNCHANGED <<df_sends, report>>
       \/ /\ df_sends' = rows
          /\ report' = {ReportRow(r) : r \in rows}
          /\ rpc' = "done"
          /\ ret' = "output_file"
          /\ UNCHANGED error
    /\ UNCHANGED <<cache_file, data, pool_exc, contact_cache, contact_lookup,
                   campaigns_with_sends, forward_contacts>>
    /\ UNCHANGED <<bulkVars, cacheVars, cliVars, extVars>>

\* scripts/run_report.py 80-154, run_report.py 44-62: what __main__ prints
\* about the run once generate_daily_report returned or raised
main_print(how) ==
    CASE how = "crashed" -> "An error occurred during report generation"
      [] how = "aborted" -> "No data found"
      [] OTHER -> "REPORT GENERATION SUCCESSFUL"

\* the exit status with sys.exit(1) left out
main_exit_zero(how) == 0

\* scripts/run_report.py 146-154, run_report.py 60-62: sys.exit(1) in the
\* exception handler only; every other path runs off the end of the script
main_exit(how) == IF how = "crashed" THEN 1 ELSE 0

\* scripts/run_report.py 74-154, run_report.py 41-62: __main__ after the
\* call of generate_daily_report
MainExit ==
    /\ cli_pc = "main"
    /\ rpc \in {"done", "aborted", "crashed"}
    /\ cli_pc' = "exited"
    /\ printed' = main_print(rpc)
    /\ exit_status' = main_exit(rpc)
    /\ UNCHANGED <<rpc, cache_file, data, pool_exc, contact_cache, contact_lookup,
                   df_sends, campaigns_with_sends, forward_contacts, report, ret, error>>
    /\ UNCHANGED <<bulkVars, cacheVars, extVars>>

Init ==
    /\ BulkIdle
    /\ CacheIdle
    /\ ExtIdle
    /\ rpc = "start"
    /\ cache_file \in CacheFiles
    /\ data = <<>>
    /\ pool_exc = {}
    /\ contact_cache = <<>>
    /\ contact_lookup = <<>>
    /\ df_sends = {}
    /\ campaigns_with_sends = {}
    /\ forward_contacts = {}
    /\ report = {}
    /\ ret = "None"
    /\ error = ""
    /\ cli_pc = "main"
    /\ exit_status = 0
    /\ printed = ""

Next ==
    \/ FetchSends \/ FetchRest \/ LoadSends \/ MergeActivity
    \/ DetectForwards \/ ResolveForwardContacts \/ AddForwardRows
    \/ FilterAndWrite \/ MainExit

Spec == Init /\ [][Next]_vars

-----------------------------------------------------------------------------
(* The contact cache: load_contact_cache, save_contact_cache,
   fetch_contacts_batch and the forward-contact backfill of a report run,
   one after the other in one process *)

\* the contacts that are asked for
Ids == {"A", "C"}

\* the id lists handed to fetch_contacts_batch (an id may come twice)
RECURSIVE IdLists(_)
IdLists(n) ==
    IF n = 0 THEN {<<>>}
    ELSE LET shorter == IdLists(n - 1) IN
         shorter \cup {Append(l, c) : l \in {p \in shorter : Len(p) = n - 1}, c \in Ids}

\* a readable file with this content, and a file that cannot be read
File(content) == [exists |-> TRUE, readable |-> TRUE, content |-> content]
Unreadable == [exists |-> TRUE, readable |-> FALSE, content |-> <<>>]

\* the cache files a process may find
GzFiles == {Absent, Unreadable} \cup {File(c) : c \in CacheFiles}
JsonFiles == {Absent, File([c \in {"C"} |-> Contact("Spam@test.com")])}

\* fetch_data.py 34-68: the compressed file if it loads, else the old
\* uncompressed file if it loads, else {}
load_contact_cache(gz, json) ==
    IF gz.exists /\ gz.readable THEN gz.content
    ELSE IF json.exists /\ json.readable THEN json.content
    ELSE <<>>

\* lines 55-63: a cache loaded from the old file is saved at once
load_migrates(gz, json) ==
    ~(gz.exists /\ gz.readable) /\ json.exists /\ json.readable

\* lines 83-90, 92-100: one write of save_contact_cache; a write that
\* raises is caught, reported as a warning, and leaves the file as it was
written(file, c, ok) == IF ok THEN File(c) ELSE file

\* lines 71-100: save_contact_cache(c), each write succeeding or not
save_contact_cache(c, gz_ok, json_ok) ==
    /\ gz_file' = written(gz_file, c, gz_ok)
    /\ json_file' = written(json_file, c, json_ok)
    /\ write_failed' = (IF gz_ok THEN {} ELSE {"gz"}) \cup (IF json_ok THEN {} ELSE {"json"})

\* the files after load_contact_cache returned
AfterLoad(gz_ok, json_ok) ==
    IF load_migrates(gz_file, json_file)
      THEN save_contact_cache(json_file.content, gz_ok, json_ok)
      ELSE UNCHANGED <<gz_file, json_file, write_failed>>

\* line 182 with every id taken as missing
cache_hit_never(cid, c) == FALSE

\* line 182: the id is in the cache
cache_hit(cid, c) == cid \in DOMAIN c

\* dict.update that forgets what the dict held
update_replace(c, new) == new

\* dict.update (lines 229, 670)
update(c, new) ==
    [k \in DOMAIN c \cup DOMAIN new |-> IF k \in DOMAIN new THEN new[k] ELSE c[k]]

\* fetch_contact_by_id succeeded for these ids
Fetched(ids) == [cid \in ids |-> Contact(LiveEmail[cid])]

\* the process is between two cache resolutions and may start another
CanStart == cpc \in {"idle", "returned", "run_done"} /\ ncalls < MaxCalls

\* fetch_contacts_batch, lines 164-196: load, cache hits, ids to fetch
BatchLoad ==
    /\ CanStart
    /\ ncalls' = ncalls + 1
    /\ \E ids \in IdLists(MaxIds), uc \in BOOLEAN, gz_ok \in BOOLEAN, json_ok \in BOOLEAN :
         LET loaded == IF uc THEN load_contact_cache(gz_file, json_file) ELSE <<>>
             to_fetch == SelectSeq(ids, LAMBDA cid : ~cache_hit(cid, loaded))
         IN
         /\ contact_ids' = ids
         /\ use_cache' = uc
         /\ live_fetches' = <<>>
         /\ newly_fetched' = <<>>
         /\ IF ids = <<>>
              THEN /\ cache' = <<>>
                   /\ contacts' = <<>>
                   /\ contacts_to_fetch' = <<>>
                   /\ cpc' = "returned"
                   /\ UNCHANGED <<gz_file, json_file, write_failed>>
              ELSE /\ cache' = loaded
                   /\ IF uc THEN AfterLoad(gz_ok, json_ok)
                            ELSE UNCHANGED <<gz_file, json_file, write_failed>>
                   /\ contacts' = [cid \in {c \in Range(ids) : cache_hit(c, loaded)} |->
                                     loaded[cid]]
                   /\ contacts_to_fetch' = to_fetch
                   /\ cpc' = IF to_fetch = <<>> THEN "returned" ELSE "fetching"
    /\ UNCHANGED run_cache
    /\ UNCHANGED <<bulkVars, reportVars, extVars>>

\* fetch_contacts_batch, lines 200-225: one request per entry of
\* contacts_to_fetch, each answered with the contact or with None
BatchPool ==
    /\ cpc = "fetching"
    /\ \E ok \in [DOMAIN contacts_to_fetch -> BOOLEAN] :
         LET got == Fetched({contacts_to_fetch[i] : i \in {j \in DOMAIN contacts_to_fetch : ok[j]}})
         IN  /\ newly_fetched' = got
             /\ contacts' = update(contacts, got)
    /\ live_fetches' = contacts_to_fetch
    /\ cpc' = "fetched"
    /\ UNCHANGED <<ncalls, gz_file, json_file, write_failed, contact_ids, use_cache,
                   cache, contacts_to_fetch, run_cache>>
    /\ UNCHANGED <<bulkVars, reportVars, extVars>>

\* fetch_contacts_batch, lines 228-232: the new contacts enter the cache,
\* the cache is saved, the contacts are returned
BatchSave ==
    /\ cpc = "fetched"
    /\ IF use_cache /\ newly_fetched # <<>>
         THEN /\ cache' = update(cache, newly_fetched)
              /\ \E gz_ok \in BOOLEAN, json_ok \in BOOLEAN :
                    save_contact_cache(cache', gz_ok, json_ok)
         ELSE UNCHANGED <<cache, gz_file, json_file, write_failed>>
    /\ cpc' = "returned"
    /\ UNCHANGED <<ncalls, contact_ids, use_cache, contacts_to_fetch, live_fetches,
                   newly_fetched, contacts, run_cache>>
    /\ UNCHANGED <<bulkVars, reportVars, extVars>>

\* generate_daily_report, line 134: the run loads the cache
RunLoad ==
    /\ CanStart
    /\ ncalls' = ncalls + 1
    /\ run_cache' = load_contact_cache(gz_file, json_file)
    /\ \E gz_ok \in BOOLEAN, json_ok \in BOOLEAN : AfterLoad(gz_ok, json_ok)
    /\ cpc' = "run_loaded"
    /\ UNCHANGED <<contact_ids, use_cache, cache, contacts_to_fetch, live_fetches,
                   newly_fetched, contacts>>
    /\ UNCHANGED <<bulkVars, reportVars, extVars>>

\* generate_daily_report, lines 623-683: of the forward contacts that the
\* cache does not hold, fetch_contacts_batch(use_cache=False) returns
\* some; they enter contact_cache, which is saved
RunBackfill ==
    /\ cpc = "run_loaded"
    /\ \E forward_ids \in SUBSET Ids :
         \E fetched \in SUBSET (forward_ids \ DOMAIN run_cache) :
            /\ run_cache' = update(run_cache, Fetched(fetched))
            /\ IF fetched # {}
                 THEN \E gz_ok \in BOOLEAN, json_ok \in BOOLEAN :
                         save_contact_cache(run_cache', gz_ok, json_ok)
                 ELSE UNCHANGED <<gz_file, json_file, write_failed>>
    /\ cpc' = "run_done"
    /\ UNCHANGED <<ncalls, contact_ids, use_cache, cache, contacts_to_fetch,
                   live_fetches, newly_fetched, contacts>>
    /\ UNCHANGED <<bulkVars, reportVars, extVars>>

InitCache ==
    /\ BulkIdle
    /\ ReportIdle
    /\ ExtIdle
    /\ cpc = "idle"
    /\ ncalls = 0
    /\ gz_file \in GzFiles
    /\ json_file \in JsonFiles
    /\ write_failed = {}
    /\ contact_ids = <<>>
    /\ use_cache = TRUE
    /\ cache = <<>>
    /\ contacts_to_fetch = <<>>
    /\ live_fetches = <<>>
    /\ newly_fetched = <<>>
    /\ contacts = <<>>
    /\ run_cache = <<>>

NextCache == BatchLoad \/ BatchPool \/ BatchSave \/ RunLoad \/ RunBackfill

SpecCache == InitCache /\ [][NextCache]_vars

-----------------------------------------------------------------------------
(* Properties of the bulk export client (checked under SpecBulk) *)

PollRequests == SelectSeq(requests, LAMBDA r : r.req = "poll")

IsLast(i) == i = Len(requests) /\ pc = "returned"

\* C1: the requests of one export are issued in the order Define, SyncStart,
\* Poll..., Download...: SyncStart only right after a Define that returned
\* without HTTP error, a Poll only after a SyncStart without HTTP error (and
\* then only after polls that neither failed nor ended the wait), a Download
\* only after a Poll answered 'success'; an HTTP error in Define or SyncStart
\* ends the export with no later request.
C1_RequestOrder ==
    \A i \in 1..Len(requests) :
        LET r == requests[i] IN
        /\ r.req = "define" => i = 1
        /\ r.req = "sync" =>
              i = 2 /\ requests[1].req = "define" /\ requests[1].ok
        /\ r.req = "poll" =>
              /\ i >= 3 /\ requests[2].req = "sync" /\ requests[2].ok
              /\ \A j \in 3..(i - 1) :
                    requests[j].req = "poll" /\ requests[j].ok
                    /\ requests[j].status # "success"
        /\ r.req = "data" =>
              /\ \E j \in 3..(i - 1) :
                    /\ requests[j].req = "poll" /\ requests[j].status = "success"
                    /\ \A k \in (j + 1)..(i - 1) : requests[k].req = "data"
        /\ (r.req \in {"define", "sync"} /\ ~r.ok) =>
              IsLast(i) /\ result = <<>>

\* C1 witness: an export went through all four phases
C1_Witness ==
    /\ stream = "EmailSend" /\ pc = "returned" /\ outcome = "ok"
    /\ Len(DataRequests) >= 2 /\ Len(PollRequests) >= 2

\* C1 witness of the error branch: the sync start failed and ended the export
C1_WitnessError ==
    /\ stream = "EmailSend" /\ outcome = "sync_start_error" /\ Len(requests) = 2

\* C2: fetch_activity_export issues at most SYNC_MAX_ATTEMPTS status
\* requests and stops polling at the first 'success' or 'error'; on 'error'
\* and on exhaustion without 'success' the stream ends with an empty list,
\* and no exception ever escapes fetch_email_sends_bulk.
C2_BoundedPolling ==
    stream = "EmailSend" =>
        /\ Len(PollRequests) <= SYNC_MAX_ATTEMPTS
        /\ Len(PollRequests) = attempt
        /\ \A i \in 1..Len(requests) :
              (requests[i].req = "poll" /\ requests[i].status \in {"success", "error"})
                 => \A j \in (i + 1)..Len(requests) : requests[j].req # "poll"
        /\ \A i \in 1..Len(requests) :
              (requests[i].req = "poll" /\ requests[i].status = "error")
                 => IsLast(i) /\ result = <<>>
        /\ (Len(PollRequests) = SYNC_MAX_ATTEMPTS
              /\ PollRequests[SYNC_MAX_ATTEMPTS].status # "success")
                 => pc = "returned" /\ result = <<>> /\ Len(DataRequests) = 0
        /\ ~raised

\* C2 witness: the attempt bound was exhausted without a 'success'
C2_Witness ==
    /\ stream = "EmailSend" /\ outcome = "sync_timeout"
    /\ attempt = SYNC_MAX_ATTEMPTS /\ result = <<>>

\* the records of the pages 1..n of the download, in request order
RECURSIVE PagesConcat(_, _)
PagesConcat(reqs, n) ==
    IF n = 0 THEN <<>> ELSE PagesConcat(reqs, n - 1) \o reqs[n].items

C6_FailedPageGivesEmpty ==
    (pc = "returned" /\ outcome = "download_error") => result = <<>>

\* C6 witness: a data page failed after an earlier page had been read
C6_Witness ==
    /\ stream = "EmailSend" /\ outcome = "download_error"
    /\ Len(DataRequests) = 2 /\ Len(all_items) > 0

-----------------------------------------------------------------------------
(* Properties of the report run (checked under Spec) *)

\* the send stream has been fetched / every stream has been fetched
HaveSends == rpc # "start"
HaveStreams == rpc \notin {"start", "sends_fetched"} /\ pool_exc = {}

\* the deduplicated sends of the run that fall on the target date
TargetSends ==
    {u \in unique_sends_dict(email_sends_filtered(data.email_sends)) :
        date(to_datetime(u.rec.activityDate)) = target_date_obj}

PairOf(r) == <<r.assetId_str, r.contactId_str>>

\* (assetId, contactId) of the sends of the target date
sentPairs == {<<u.rec.assetId, u.rec.contactId>> : u \in TargetSends}

\* C3: a report file is written (and a path returned) only if at least one
\* deduplicated send falls on the target date; when the send stream is
\* empty (fetch failed or no records) or no send falls on the target date
\* the run ends without report file and without report path, whatever the
\* other streams hold.
C3_ReportOnlyWithTargetSends ==
    HaveSends =>
       /\ (rpc = "done" \/ ret # "None" \/ report # {}) => TargetSends # {}
       /\ (data.email_sends = <<>> \/ TargetSends = {}) =>
             /\ rpc \in {"sends_fetched", "fetched", "aborted", "crashed"}
             /\ ret = "None" /\ report = {}

\* C3 witness: sends exist, none on the target date, opens were fetched, and
\* the run was aborted
C3_Witness ==
    /\ rpc = "aborted"
    /\ data.email_sends # <<>> /\ data.email_opens # <<>>
    /\ TargetSends = {}

\* C4 as stated: an exception of a worker-pool fetch is not propagated, and
\* the run still emits a report when sends exist for the target date.
C4_PoolFailureIsEmptyStream ==
    (HaveSends /\ pool_exc # {} /\ TargetSends # {}) =>
        /\ error = ""
        /\ rpc \notin {"aborted", "crashed"}

\* C4 witness: a worker-pool fetch raised and the run died of it
C4_Witness ==
    /\ pool_exc = {"bouncebacks"} /\ rpc = "crashed" /\ error = "AttributeError"
    /\ TargetSends # {}

\* the rows of real sends of the target date whose campaign is reported
ReportableSends ==
    {u \in TargetSends : u.rec.assetId \notin EXCLUDED_CAMPAIGN_IDS}

FilteredAddress(e) ==
    Lower(e) \in EXCLUDE_EMAIL_DOMAIN \/ Lower(e) \in EXCLUDE_TEST_EMAILS

\* the address a contact resolves to: lookup, else cache
ResolvedEmail(c) ==
    IF c \in DOMAIN contact_lookup THEN contact_lookup[c].emailAddress
    ELSE IF c \in DOMAIN contact_cache THEN contact_cache[c].emailAddress
    ELSE ""

\* keys with an open or click on a reported campaign that has a send on
\* the target date and keeps a send after the address filters, that are no
\* send themselves and resolve to an address that passes the filters
QualifyingKeys ==
    {k \in PairsOfFeed(data.email_opens) \cup PairsOfFeed(data.email_clickthroughs) :
        /\ \E u \in ReportableSends :
              u.rec.assetId = k[1] /\ ~FilteredAddress(u.rec.emailAddress)
        /\ k \notin sentPairs
        /\ ResolvedEmail(k[2]) # "" /\ ~FilteredAddress(ResolvedEmail(k[2]))}

\* C7 as stated: once the run is over, every qualifying key has a forward
\* row in the report with Total Sends = 0 and the key's open and click
\* counts.
C7_ForwardRowForQualifyingKey ==
    (HaveStreams /\ rpc \in {"done", "crashed"}) =>
        \A k \in QualifyingKeys :
            \E r \in report :
                /\ r.emailSendType = "EmailForward" /\ PairOf(r) = k
                /\ r.Total_Sends = 0
                /\ r.total_opens = CountFor(data.email_opens, k[1], k[2])
                /\ r.total_clicks = CountFor(data.email_clickthroughs, k[1], k[2])

\* C7 witness: a run ended with a forward row for a qualifying key
C7_Witness ==
    /\ rpc = "done"
    /\ \E k \in QualifyingKeys :
          \E r \in report : r.emailSendType = "EmailForward" /\ PairOf(r) = k

\* C8: no forward row, in the frame or in the report, has the key of a send
\* of the target date, and no key has both a real-send row and a forward
\* row.
C8_NoForwardForSentPair ==
    \A r \in df_sends \cup report :
        IsForward(r) =>
            /\ PairOf(r) \notin sentPairs
            /\ \A q \in df_sends \cup report :
                  PairOf(q) = PairOf(r) => IsForward(q)

\* C8 witness: the report has a forward row, and a contact that was sent the
\* same e-mail opened it too
C8_Witness ==
    /\ rpc = "done"
    /\ \E r \in report : IsForward(r)
    /\ \E k \in PairsOfFeed(data.email_opens) : k \in sentPairs

\* C9: every forward row, in the frame and in the report, has opens > 0 or
\* clicks > 0 (and no negative count).
C9_ForwardHasActivity ==
    \A r \in df_sends \cup report :
        IsForward(r) =>
            /\ r.total_opens > 0 \/ r.total_clicks > 0
            /\ r.total_opens >= 0 /\ r.total_clicks >= 0

\* C9 witness: the report has a forward row that has clicks and no opens
C9_Witness ==
    /\ rpc = "done"
    /\ \E r \in report :
          IsForward(r) /\ r.total_opens = 0 /\ r.total_clicks > 0

\* C10 as stated: no two rows of a report share their (assetId, contactId).
C10_UniquePairs ==
    \A r, q \in report : PairOf(r) = PairOf(q) => r = q

\* C10 amended: two distinct rows of a report share their (assetId,
\* contactId) only if both are real sends with different dedup keys; the
\* forward rows are unique per pair and never share it with a send.
C10_UniqueForwardsAndKeys ==
    \A r, q \in report :
        (PairOf(r) = PairOf(q) /\ r # q) =>
            /\ ~IsForward(r) /\ ~IsForward(q)
            /\ r.key # q.key

\* C10 witness: two sends of one e-mail to one contact on the target date,
\* with distinct activity ids, are two rows of the report
C10_Witness ==
    /\ rpc = "done"
    /\ \E r, q \in report :
          /\ PairOf(r) = PairOf(q) /\ r # q
          /\ Len(r.key) = 1 /\ Len(q.key) = 1

-----------------------------------------------------------------------------
(* Properties of the totals and rates of the report rows (checked under Spec) *)

\* C11: every report row has Total Sends 0 or 1; Total Sends is 0 exactly
\* for the forward rows, and every row of a real send has Total Sends 1
C11_TotalSends ==
    \A r \in report :
        /\ r.Total_Sends \in {0, 1}
        /\ r.Total_Sends = 0 <=> r.emailSendType = "EmailForward"
        /\ r.emailSendType = "EmailSend" => r.Total_Sends = 1
        /\ r.emailSendType \in {"EmailSend", "EmailForward"}

\* a report with a forward row and a row of a real send
C11_Witness ==
    /\ rpc = "done"
    /\ \E r \in report : r.emailSendType = "EmailForward" /\ r.Total_Sends = 0
    /\ \E r \in report : r.emailSendType = "EmailSend" /\ r.Total_Sends = 1

\* the bounceback records of a key, all of them and the hard and soft ones
BounceRecords(a, c) ==
    {i \in DOMAIN data.bouncebacks :
        data.bouncebacks[i].emailID = a /\ data.bouncebacks[i].contactID = c}
HardRecords(a, c) == {i \in BounceRecords(a, c) : data.bouncebacks[i].isHardBounceback}
SoftRecords(a, c) == {i \in BounceRecords(a, c) : ~data.bouncebacks[i].isHardBounceback}

Flag(S) == IF S = {} THEN 0 ELSE 1

\* the bounce columns of a row are those of its key, each at most 1
BounceCapped(r) ==
    /\ r.hard \in {0, 1} /\ r.soft \in {0, 1} /\ r.total_bb \in {0, 1}
    /\ r.emailSendType = "EmailSend" =>
          /\ r.hard = Flag(HardRecords(r.assetId_str, r.contactId_str))
          /\ r.soft = Flag(SoftRecords(r.assetId_str, r.contactId_str))
          /\ r.total_bb = Flag(BounceRecords(r.assetId_str, r.contactId_str))

\* C12: however many bounceback records one (assetId, contactId) key has,
\* the hard, soft and total bounce counts of its rows are at most 1 (1 when
\* the key has a record of the kind, 0 otherwise), in the frame once the
\* bouncebacks are merged and in the report
C12_BounceCountsCapped ==
    /\ rpc \in {"merged", "forwards_detected", "forwards_resolved",
                "forwards_added", "done"} => \A r \in df_sends : BounceCapped(r)
    /\ \A r \in report : BounceCapped(r)

\* a report row of a key with several hard bounceback records
C12_Witness ==
    /\ rpc = "done"
    /\ \E r \in report :
          /\ Cardinality(HardRecords(r.assetId_str, r.contactId_str)) >= 2
          /\ r.hard = 1 /\ r.total_bb = 1

\* rate is 100 * metric / denominator, and 0 when the denominator is 0
IsRateOver(rate, metric, denominator) ==
    IF denominator = 0 THEN rate = 0 ELSE rate * denominator = 100 * metric

\* C13: Unique Open Rate and Unique Clickthrough Rate of a row are
\* 100 * unique count / Total Delivered: 100 for a delivered send with an
\* open, and 0 whenever Total Delivered is 0, whatever the open count; the
\* three bounce rates and Delivered Rate are taken over Total Sends
C13_RateDenominators ==
    \A r \in report :
        /\ IsRateOver(r.Unique_Open_Rate, r.Unique_Opens, r.Total_Delivered)
        /\ IsRateOver(r.Unique_Clickthrough_Rate, r.Unique_Clicks, r.Total_Delivered)
        /\ r.Total_Sends = 1 /\ r.Total_Delivered = 1 /\ r.Unique_Opens = 1
              => r.Unique_Open_Rate = 100
        /\ IsRateOver(r.Hard_Bounceback_Rate, r.hard, r.Total_Sends)
        /\ IsRateOver(r.Soft_Bounceback_Rate, r.soft, r.Total_Sends)
        /\ IsRateOver(r.Bounceback_Rate, r.total_bb, r.Total_Sends)
        /\ IsRateOver(r.Delivered_Rate, r.Total_Delivered, r.Total_Sends)

\* a bounced send that was opened: Total Sends 1, Total Delivered 0
C13_Witness ==
    /\ rpc = "done"
    /\ \E r \in report :
          /\ r.Total_Sends = 1 /\ r.Total_Delivered = 0 /\ r.Unique_Opens = 1
          /\ r.Unique_Open_Rate = 0 /\ r.Bounceback_Rate = 100

\* a delivered send that was opened
C13_WitnessDelivered ==
    /\ rpc = "done"
    /\ \E r \in report :
          /\ r.Total_Sends = 1 /\ r.Total_Delivered = 1 /\ r.Unique_Opens = 1
          /\ r.Unique_Open_Rate = 100 /\ r.Delivered_Rate = 100

\* C14: a forward row of the report has 0 in each of the seven rate fields
\* and Total Delivered 0, whatever its open and click counts
C14_ForwardRatesZero ==
    \A r \in report :
        r.emailSendType = "EmailForward" =>
            /\ r.Total_Delivered = 0
            /\ r.Hard_Bounceback_Rate = 0
            /\ r.Soft_Bounceback_Rate = 0
            /\ r.Bounceback_Rate = 0
            /\ r.Delivered_Rate = 0
            /\ r.Unique_Open_Rate = 0
            /\ r.Clickthrough_Rate = 0
            /\ r.Unique_Clickthrough_Rate = 0

\* a forward row with opens and a click in the report
C14_Witness ==
    /\ rpc = "done"
    /\ \E r \in report :
          /\ r.emailSendType = "EmailForward"
          /\ r.total_opens > 0 /\ r.total_clicks > 0
          /\ r.Unique_Open_Rate = 0 /\ r.Total_Delivered = 0

-----------------------------------------------------------------------------
(* Properties of the send dedup (checked under Spec) *)

KeysOf(sends) == {send_key(sends[i]) : i \in DOMAIN sends}
RecordsOf(d) == {u.rec : u \in d}

\* the dedup of the sends of the run and the dedup of its own output
DedupInput == email_sends_filtered(data.email_sends)
DedupOutput == unique_sends_list(DedupInput)

\* C15: the send dedup (key: the activity id when there is one, else
\* assetId, contactId, sendType and sentAt) is idempotent, its output run
\* through it again is the same list of records, and its output holds
\* exactly one record, a record of the input, for each key of the input
C15_DedupIdempotent ==
    HaveSends =>
        /\ unique_sends_list(DedupOutput) = DedupOutput
        /\ RecordsOf(unique_sends_dict(DedupOutput)) = RecordsOf(unique_sends_dict(DedupInput))
        /\ KeysOf(DedupOutput) = KeysOf(DedupInput)
        /\ \A k \in KeysOf(DedupInput) :
              Cardinality({i \in DOMAIN DedupOutput : send_key(DedupOutput[i]) = k}) = 1
        /\ Range(DedupOutput) \subseteq Range(DedupInput)

\* two different records of one key went through the dedup
C15_Witness ==
    /\ rpc = "sends_loaded"
    /\ Len(DedupInput) = 2
    /\ Len(DedupOutput) = 1
    /\ DedupInput[1] # DedupInput[2]

-----------------------------------------------------------------------------
(* Properties of the contact resolution (checked under Spec) *)

\* forward keys whose contact is neither in the lookup built from the sends
\* nor in the cache, and which the contact API did not return
UnresolvedForwards ==
    {k \in forward_contacts : k[2] \notin DOMAIN contact_lookup}

HasSendRow(asset_id) ==
    \E r \in report : r.emailSendType = "EmailSend" /\ r.assetId_str = asset_id

-----------------------------------------------------------------------------
(* Properties of the contact cache (checked under SpecCache) *)

\* the stored cache: what load_contact_cache finds
StoredCache == load_contact_cache(gz_file, json_file)

\* every entry of old is in new with the same record
Extends(old, new) == \A c \in DOMAIN old : c \in DOMAIN new /\ new[c] = old[c]

\* one step leaves every entry of the stored cache and of the cache in
\* memory in place
AppendOnlyStep ==
    /\ Extends(StoredCache, StoredCache')
    /\ cpc' = "run_loaded" => Extends(StoredCache, run_cache')
    /\ cpc = "run_loaded" => Extends(run_cache, run_cache')
    /\ (cpc' \in {"fetching", "returned"} /\ use_cache' /\ contact_ids' # <<>>
          /\ cpc \notin {"fetching", "fetched"}) => Extends(StoredCache, cache')
    /\ cpc \in {"fetching", "fetched"} => Extends(cache, cache')

Misses(loaded) == SelectSeq(contact_ids, LAMBDA cid : cid \notin DOMAIN loaded)

\* a call of fetch_contacts_batch with caching has returned
BatchReturned == cpc = "returned" /\ use_cache /\ contact_ids # <<>>

\* the requests of the call and what it returns: one live fetch for each
\* requested id that the loaded cache lacks, none for a cached id, whose
\* cached record is returned; a fetched contact is returned and cached,
\* an id whose fetch failed is neither
FetchesAndResult ==
    /\ (cpc = "fetched" /\ use_cache) =>
          /\ live_fetches = Misses(cache)
          /\ \A c \in Range(contact_ids) \cap DOMAIN cache :
                c \notin Range(live_fetches) /\ contacts[c] = cache[c]
          /\ \A c \in Range(live_fetches) :
                c \in DOMAIN contacts <=> c \in DOMAIN newly_fetched
    /\ BatchReturned =>
          /\ \A c \in Range(contact_ids) \ Range(live_fetches) :
                c \in DOMAIN cache /\ contacts[c] = cache[c]
          /\ \A c \in DOMAIN newly_fetched :
                /\ c \in Range(live_fetches)
                /\ contacts[c] = newly_fetched[c] /\ cache[c] = newly_fetched[c]
          /\ \A c \in Range(live_fetches) \ DOMAIN newly_fetched :
                c \notin DOMAIN contacts /\ c \notin DOMAIN cache

C18_WitnessFailedFetch ==
    /\ BatchReturned
    /\ live_fetches = <<"A">> /\ newly_fetched = <<>>
    /\ "A" \notin DOMAIN contacts /\ "A" \notin DOMAIN cache

-----------------------------------------------------------------------------
(* Properties of the filters and of the order of the steps (checked under
   Spec) *)

\* C19: after the address filters every forward row of the report belongs
\* to a campaign that still has a row of a real send in the same report; a
\* forward whose campaign lost all its sends to the filters is dropped
C19_ForwardsHaveSends ==
    /\ \A r \in report : r.emailSendType = "EmailForward" => HasSendRow(r.assetId_str)
    /\ rpc = "done" =>
          \A k \in forward_contacts :
              ~HasSendRow(k[1]) => ~ \E r \in report : PairOf(r) = k

\* a report with a forward row whose campaign lost one send to the filters
\* and kept another
C19_Witness ==
    /\ rpc = "done"
    /\ \E r \in report :
          /\ r.emailSendType = "EmailForward"
          /\ HasSendRow(r.assetId_str)
          /\ \E u \in TargetSends :
                u.rec.assetId = r.assetId_str /\ FilteredAddress(u.rec.emailAddress)

\* a run in which a forward with a valid address was dropped because the
\* filters took every send of its campaign
C19_WitnessDropped ==
    /\ rpc = "done"
    /\ \E k \in forward_contacts :
          /\ ResolvedEmail(k[2]) # "" /\ ~FilteredAddress(ResolvedEmail(k[2]))
          /\ \E u \in TargetSends :
                u.rec.assetId = k[1] /\ FilteredAddress(u.rec.emailAddress)
          /\ ~HasSendRow(k[1])
          /\ ~ \E r \in report : PairOf(r) = k

\* the frame holds the deduplicated sends of the target date: the dedup
\* runs on all sends, the date filter on its result
DedupBeforeDateFilter ==
    rpc = "sends_loaded" => {r.key : r \in df_sends} = {u.key : u \in TargetSends}

\* forwards are inferred from the frame left by the date filter and the
\* campaign exclusion: only for campaigns with a send on the target date
ForwardsOfTargetCampaigns ==
    \A k \in forward_contacts :
        /\ k[1] \in campaigns_with_sends
        /\ \E u \in TargetSends : u.rec.assetId = k[1]

\* C20 as stated: dedup runs before the date filter, the date filter and
\* the campaign exclusion before forward detection, so that no report row
\* has an assetId of the exclusion list and forwards are inferred only for
\* campaigns with a real send on the target date
C20_NoExcludedCampaignInReport ==
    /\ DedupBeforeDateFilter
    /\ ForwardsOfTargetCampaigns
    /\ \A k \in forward_contacts : k[1] \notin EXCLUDED_CAMPAIGN_IDS
    /\ \A r \in report : r.assetId_str \notin EXCLUDED_CAMPAIGN_IDS

\* a report with a row of an e-mail of the exclusion list, written by a
\* run that had a send without assetId on the target date
C20_Witness ==
    /\ rpc = "done"
    /\ \E r \in report : r.assetId_str \in EXCLUDED_CAMPAIGN_IDS
    /\ \E u \in TargetSends : u.rec.assetId \notin NumericIds

\* in the runs whose sends of the target date all carry a numeric assetId
\* the exclusion works
C20_ExcludedWhenIdsNumeric ==
    (HaveSends /\ \A u \in TargetSends : u.rec.assetId \in NumericIds) =>
        /\ \A k \in forward_contacts : k[1] \notin EXCLUDED_CAMPAIGN_IDS
        /\ \A r \in report : r.assetId_str \notin EXCLUDED_CAMPAIGN_IDS

-----------------------------------------------------------------------------
(* fetch_data (core/rest/fetch_data.py 235-294): the OData pager *)

\* the elements of an OData answer
Elements == {"x", "y"}

\* the lists of at most n elements
ElementLists(n) == UNION {[1..k -> Elements] : k \in 0..n}

\* lines 265-270: what a page request gives: a page of at most
\* API_PAGE_SIZE elements, or an exception (transport error, HTTP error
\* status, a body that is not JSON)
PageAnswers ==
    {[status |-> "ok", value |-> v] : v \in ElementLists(API_PAGE_SIZE)}
        \cup {[status |-> "error", value |-> <<>>]}

\* the loop left on an empty page only
stop_paging_onEmpty(elements, pg) == elements = <<>>

\* lines 272-285: the loop ends after an empty page, after page
\* API_MAX_PAGES, and after a page shorter than API_PAGE_SIZE
stop_paging(elements, pg) ==
    \/ elements = <<>>
    \/ pg >= API_MAX_PAGES
    \/ Len(elements) < API_PAGE_SIZE

\* lines 247-261: without a token fetch_data returns {} and requests nothing
FetchDataStart ==
    /\ fd_pc = "start"
    /\ IF access_token
         THEN fd_pc' = "paging" /\ UNCHANGED fd_ret
         ELSE fd_pc' = "returned" /\ fd_ret' = <<>>
    /\ page' = 1
    /\ all_data' = <<>>
    /\ UNCHANGED <<access_token, page_requests, responses>>
    /\ UNCHANGED outsidePager

\* lines 263-294: one turn of the loop, and the return when it is the last
FetchDataPage ==
    /\ fd_pc = "paging"
    /\ \E answer \in PageAnswers :
         /\ page_requests' = Append(page_requests, page)
         /\ responses' = Append(responses, answer)
         /\ all_data' = IF answer.status = "ok" THEN all_data \o answer.value
                                               ELSE all_data
         /\ IF answer.status = "error" \/ stop_paging(answer.value, page)
              THEN /\ fd_pc' = "returned"
                   /\ fd_ret' = [value |-> all_data']
                   /\ UNCHANGED page
              ELSE /\ page' = page + 1
                   /\ UNCHANGED <<fd_pc, fd_ret>>
    /\ UNCHANGED access_token
    /\ UNCHANGED outsidePager

InitPager ==
    /\ BulkIdle
    /\ ReportIdle
    /\ CacheIdle
    /\ SessionIdle
    /\ ParallelIdle
    /\ unlogged = 0
    /\ fd_pc = "start"
    /\ access_token \in BOOLEAN
    /\ page = 1
    /\ all_data = <<>>
    /\ page_requests = <<>>
    /\ responses = <<>>
    /\ fd_ret = <<>>

NextPager == FetchDataStart \/ FetchDataPage

SpecPager == InitPager /\ [][NextPager]_vars

-----------------------------------------------------------------------------
\* The OData pager

RECURSIVE Concat(_)
\* the concatenation, in order, of a list of lists
Concat(lists) ==
    IF lists = <<>> THEN <<>> ELSE lists[1] \o Concat(Tail(lists))

\* the pages received: the answers that were not an exception
PagesReceived ==
    LET ok == SelectSeq(responses, LAMBDA a : a.status = "ok")
    IN  [i \in 1..Len(ok) |-> ok[i].value]

\* C23: fetch_data requests pages 1, 2, 3, ... in order, requests nothing
\* after a page shorter than API_PAGE_SIZE (or empty), never issues more
\* than API_MAX_PAGES requests, and returns the concatenation in order of
\* the pages received
C23_PagerOrderedBoundedConcat ==
    /\ Len(responses) = Len(page_requests)
    /\ \A i \in 1..Len(page_requests) : page_requests[i] = i
    /\ Len(page_requests) <= API_MAX_PAGES
    /\ \A i \in 1..(Len(page_requests) - 1) :
          responses[i].status = "ok" /\ Len(responses[i].value) >= API_PAGE_SIZE
    /\ (fd_pc = "returned" /\ access_token) =>
          /\ fd_ret = [value |-> Concat(PagesReceived)]
          /\ page_requests # <<>>
          /\ LET last == responses[Len(responses)] IN
                \/ last.status = "error"
                \/ Len(last.value) < API_PAGE_SIZE
                \/ Len(page_requests) = API_MAX_PAGES

\* a call that received a full page and then a shorter one, and returned
\* the elements of both
C23_Witness ==
    /\ fd_pc = "returned"
    /\ page_requests = <<1, 2>>
    /\ Len(responses[1].value) = API_PAGE_SIZE
    /\ responses[2].status = "ok"
    /\ Len(responses[2].value) = 1
    /\ Len(fd_ret.value) = API_PAGE_SIZE + 1

\* a call that stopped at the page limit after full pages only
C23_WitnessPageLimit ==
    /\ fd_pc = "returned"
    /\ Len(page_requests) = API_MAX_PAGES
    /\ Len(fd_ret.value) = API_MAX_PAGES * API_PAGE_SIZE

\* a call that lost the answer of its second request to an exception and
\* returned the first page
C23_WitnessException ==
    /\ fd_pc = "returned"
    /\ Len(page_requests) = 2
    /\ responses[2].status = "error"
    /\ fd_ret = [value |-> responses[1].value]

-----------------------------------------------------------------------------
(* get_http_session (core/rest/fetch_data.py 14-32, core/bulk/bulk_email_send.py
   15-34) called by the threads of a worker pool *)

\* the threads of the pool (fetch_data_bulk.py 119-125, fetch_data.py 207)
Workers == 1..MaxWorkers

\* line 22: _http_session is None
session_missing(s) == s = 0

\* line 22: the thread reads the global and takes the branch
SessionCheck(t) ==
    /\ t_pc[t] = "call"
    /\ t_pc' = [t_pc EXCEPT ![t] = IF session_missing(http_session)
                                     THEN "construct" ELSE "return"]
    /\ UNCHANGED <<http_session, new_session, created, mounted, session_of>>
    /\ UNCHANGED outsideSession

\* line 23, right-hand side: requests.Session() builds a new object
SessionConstruct(t) ==
    /\ t_pc[t] = "construct"
    /\ created' = created + 1
    /\ new_session' = [new_session EXCEPT ![t] = created + 1]
    /\ t_pc' = [t_pc EXCEPT ![t] = "store"]
    /\ UNCHANGED <<http_session, mounted, session_of>>
    /\ UNCHANGED outsideSession

\* line 23, the assignment to the global
SessionStore(t) ==
    /\ t_pc[t] = "store"
    /\ http_session' = new_session[t]
    /\ t_pc' = [t_pc EXCEPT ![t] = "mount"]
    /\ UNCHANGED <<new_session, created, mounted, session_of>>
    /\ UNCHANGED outsideSession

\* lines 24-31: the adapter is mounted on the session the global holds
SessionMount(t) ==
    /\ t_pc[t] = "mount"
    /\ mounted' = mounted \cup {http_session}
    /\ t_pc' = [t_pc EXCEPT ![t] = "return"]
    /\ UNCHANGED <<http_session, new_session, created, session_of>>
    /\ UNCHANGED outsideSession

\* line 32: return _http_session
SessionReturn(t) ==
    /\ t_pc[t] = "return"
    /\ session_of' = [session_of EXCEPT ![t] = http_session]
    /\ t_pc' = [t_pc EXCEPT ![t] = "done"]
    /\ UNCHANGED <<http_session, new_session, created, mounted>>
    /\ UNCHANGED outsideSession

\* the module is loaded (line 14) and the threads of the pool are about to
\* make the first calls
InitSession ==
    /\ BulkIdle
    /\ ReportIdle
    /\ CacheIdle
    /\ PagerIdle
    /\ ParallelIdle
    /\ unlogged = 0
    /\ http_session = 0
    /\ t_pc = [t \in Workers |-> "call"]
    /\ new_session = [t \in Workers |-> 0]
    /\ created = 0
    /\ mounted = {}
    /\ session_of = [t \in Workers |-> 0]

NextSession ==
    \E t \in Workers :
        \/ SessionCheck(t) \/ SessionConstruct(t) \/ SessionStore(t)
        \/ SessionMount(t) \/ SessionReturn(t)

SpecSession == InitSession /\ [][NextSession]_vars

-----------------------------------------------------------------------------
\* The shared HTTP session

\* the threads whose call of get_http_session returned
Returned_threads == {t \in DOMAIN t_pc : t_pc[t] = "done"}

\* C24 as stated: for any interleaving of concurrent first calls of
\* get_http_session from worker threads, exactly one session object is ever
\* created and every caller receives that same object
C24_OneSessionForAll ==
    /\ created <= 1
    /\ Returned_threads # {} => created = 1
    /\ \A t, u \in Returned_threads : session_of[t] = session_of[u]

\* two threads that hold different Session objects after their first calls
C24_Witness ==
    /\ created >= 2
    /\ \E t, u \in Returned_threads :
          /\ session_of[t] # 0 /\ session_of[u] # 0
          /\ session_of[t] # session_of[u]

\* a thread that got a session on which no adapter was mounted yet
C24_WitnessUnmounted ==
    \E t \in Returned_threads : session_of[t] # 0 /\ session_of[t] \notin mounted

\* what holds in every interleaving: every caller gets a session, never
\* None, and no more sessions are built than there are threads
C24_EveryCallerGetsASession ==
    /\ created <= MaxWorkers
    /\ \A t \in Returned_threads : session_of[t] \in 1..created

-----------------------------------------------------------------------------
(* run_weekly_reports_parallel (scripts/run_weekly_parallel.py 226-260, also
   run_weekly_parallel.py 200 and run_monthly_parallel.py 221): daily
   reports generated in the threads of one pool, each with its own
   load-modify-save cycle on the contact cache files. Every write succeeds
   here and a save is one step. *)

\* the reports in progress
Runs == 1..MaxRuns

\* process_data_bulk.py 132-135: the run loads the cache into its own dict
ParLoad(r) ==
    /\ par_pc[r] = "start"
    /\ par_cache' = [par_cache EXCEPT ![r] = load_contact_cache(gz_file, json_file)]
    /\ AfterLoad(TRUE, TRUE)
    /\ par_pc' = [par_pc EXCEPT ![r] = "loaded"]
    /\ UNCHANGED par_added
    /\ UNCHANGED outsideParallel

\* process_data_bulk.py 623-683: of the forward contacts that its dict does
\* not hold the run fetches some, adds them to the dict, and saves the dict
ParBackfill(r) ==
    /\ par_pc[r] = "loaded"
    /\ \E forward_ids \in SUBSET Ids :
         \E fetched \in SUBSET (forward_ids \ DOMAIN par_cache[r]) :
            /\ par_cache' = [par_cache EXCEPT
                                ![r] = update(par_cache[r], Fetched(fetched))]
            /\ par_added' = [par_added EXCEPT ![r] = fetched]
            /\ IF fetched # {}
                 THEN save_contact_cache(par_cache'[r], TRUE, TRUE)
                 ELSE UNCHANGED <<gz_file, json_file, write_failed>>
    /\ par_pc' = [par_pc EXCEPT ![r] = "done"]
    /\ UNCHANGED outsideParallel

InitParallel ==
    /\ BulkIdle
    /\ ReportIdle
    /\ PagerIdle
    /\ SessionIdle
    /\ unlogged = 0
    /\ cpc = "off"
    /\ ncalls = 0
    /\ gz_file \in GzFiles
    /\ json_file \in JsonFiles
    /\ write_failed = {}
    /\ contact_ids = <<>>
    /\ use_cache = TRUE
    /\ cache = <<>>
    /\ contacts_to_fetch = <<>>
    /\ live_fetches = <<>>
    /\ newly_fetched = <<>>
    /\ contacts = <<>>
    /\ run_cache = <<>>
    /\ par_pc = [r \in Runs |-> "start"]
    /\ par_cache = [r \in Runs |-> <<>>]
    /\ par_added = [r \in Runs |-> {}]

NextParallel == \E r \in Runs : ParLoad(r) \/ ParBackfill(r)

SpecParallel == InitParallel /\ [][NextParallel]_vars

-----------------------------------------------------------------------------
\* The contact cache under concurrent report runs

\* every run of the pool has finished
AllRunsDone == par_pc # <<>> /\ \A r \in DOMAIN par_pc : par_pc[r] = "done"

\* C25 as stated: when several daily reports run concurrently in one
\* process, after all runs finished the cache file contains every contact
\* that any of the runs added, for every interleaving
C25_NoLostUpdate ==
    AllRunsDone =>
        \A r \in DOMAIN par_added : \A c \in par_added[r] : c \in DOMAIN StoredCache

\* two finished runs, each of which added a contact and saved, and a cache
\* file that holds the contact of one of them only
C25_Witness ==
    /\ AllRunsDone
    /\ write_failed = {}
    /\ \E r, q \in DOMAIN par_added :
          /\ par_added[r] = {"A"} /\ par_added[q] = {"C"}
          /\ "C" \in DOMAIN StoredCache
          /\ "A" \notin DOMAIN StoredCache

\* what holds: the file is the dict of the run that saved last, so the
\* contacts of a run are in the file when no other run saved after it
C25_FileIsSomeRunsCache ==
    AllRunsDone =>
        \/ \A r \in DOMAIN par_added : par_added[r] = {}
        \/ \E r \in DOMAIN par_cache :
              par_added[r] # {} /\ gz_file = File(par_cache[r])

-----------------------------------------------------------------------------
(* fetch_contacts_bulk (core/bulk/bulk_contacts.py 41-130, core/bulk_contacts.py
   49-131): the contact export. It runs on the variables of the bulk export
   client, with stream = "Contact"; offset and all_items are not used. *)

\* line 96: range(3), the download attempts
DOWNLOAD_ATTEMPTS == 3

\* lines 97-122: what the data endpoint gives: an exception of requests.get,
\* an empty body, a body that is not JSON, or JSON with n items
ContactDataAnswers ==
    {[kind |-> k, n |-> 0] : k \in {"exception", "empty", "badjson"}}
        \cup {[kind |-> "ok", n |-> n] : n \in 0..limit}

\* line 128-130: every exception of the body is caught and gives []
ContactsCaught(how) == Returned(<<>>, how)

\* lines 43-61: no ids, no export
ContactsStart ==
    /\ pc = "start"
    /\ \E ids \in BOOLEAN :
         IF ids THEN /\ pc' = "define"
                     /\ UNCHANGED <<outcome, result, raised>>
                ELSE Returned(<<>>, "no_ids")
    /\ UNCHANGED <<stream, attempt, offset, all_items, requests>>
    /\ UNCHANGED <<reportVars, cacheVars, extVars>>

\* lines 66-70: POST the export definition, raise_for_status
ContactsDefine ==
    /\ pc = "define"
    /\ \E ok \in BOOLEAN :
        /\ requests' = Append(requests, Request("define", ok, "", 0, <<>>, FALSE))
        /\ IF ok THEN /\ pc' = "sync"
                      /\ UNCHANGED <<outcome, result, raised>>
                 ELSE ContactsCaught("export_error")
    /\ UNCHANGED <<stream, attempt, offset, all_items>>
    /\ UNCHANGED <<reportVars, cacheVars, extVars>>

\* lines 72-75: POST the sync, raise_for_status
ContactsSync ==
    /\ pc = "sync"
    /\ \E ok \in BOOLEAN :
        /\ requests' = Append(requests, Request("sync", ok, "", 0, <<>>, FALSE))
        /\ IF ok THEN /\ pc' = "poll"
                      /\ UNCHANGED <<outcome, result, raised>>
                 ELSE ContactsCaught("sync_start_error")
    /\ UNCHANGED <<stream, attempt, offset, all_items>>
    /\ UNCHANGED <<reportVars, cacheVars, extVars>>

\* lines 78-85: one iteration of the polling loop; the for loop has no else
\* clause, so that Step 4 follows the last iteration as it follows a break
ContactsPoll ==
    /\ pc = "poll"
    /\ attempt < SYNC_MAX_ATTEMPTS
    /\ \E a \in PollAnswers :
        /\ attempt' = attempt + 1
        /\ requests' = Append(requests,
                Request("poll", a # "http_error",
                        IF a = "http_error" THEN "" ELSE a, 0, <<>>, FALSE))
        /\ CASE a = "http_error" -> ContactsCaught("poll_http_error")
             [] a = "success" ->
                  /\ pc' = "download"
                  /\ UNCHANGED <<outcome, result, raised>>
             [] OTHER ->
                  /\ pc' = IF attempt + 1 = SYNC_MAX_ATTEMPTS THEN "download"
                                                              ELSE "poll"
                  /\ UNCHANGED <<outcome, result, raised>>
    /\ UNCHANGED <<stream, offset, all_items>>
    /\ UNCHANGED <<reportVars, cacheVars, extVars>>

\* lines 87-126: one attempt of the download loop
ContactsDownload ==
    /\ pc = "download"
    /\ Len(DataRequests) < DOWNLOAD_ATTEMPTS
    /\ \E d \in ContactDataAnswers :
        LET items == IF d.kind = "ok" THEN ItemsAt(0, d.n) ELSE <<>> IN
        /\ requests' = Append(requests,
                Request("data", d.kind = "ok", d.kind, 0, items, FALSE))
        /\ CASE d.kind = "exception" -> ContactsCaught("download_error")
             [] d.kind = "ok" -> Returned(items, "downloaded")
             [] OTHER ->
                  IF Len(DataRequests) + 1 = DOWNLOAD_ATTEMPTS
                    THEN Returned(<<>>, "all_attempts_failed")
                    ELSE /\ pc' = "download"
                         /\ UNCHANGED <<outcome, result, raised>>
    /\ UNCHANGED <<stream, attempt, offset, all_items>>
    /\ UNCHANGED <<reportVars, cacheVars, extVars>>

InitContacts ==
    /\ ReportIdle
    /\ CacheIdle
    /\ ExtIdle
    /\ stream = "Contact"
    /\ pc = "start"
    /\ attempt = 0
    /\ offset = 0
    /\ all_items = <<>>
    /\ requests = <<>>
    /\ outcome = ""
    /\ result = <<>>
    /\ raised = FALSE

NextContacts ==
    ContactsStart \/ ContactsDefine \/ ContactsSync \/ ContactsPoll \/ ContactsDownload

SpecContacts == InitContacts /\ [][NextContacts]_vars

-----------------------------------------------------------------------------
\* The contact export

\* a poll was answered with status success
PolledSuccess(upto) ==
    \E j \in 1..upto : requests[j].req = "poll" /\ requests[j].status = "success"

\* the polling attempts are used up and none gave success
PollsExhausted ==
    /\ Len(SelectSeq(requests, LAMBDA r : r.req = "poll")) = SYNC_MAX_ATTEMPTS
    /\ ~PolledSuccess(Len(requests))

\* C26 as stated: fetch_contacts_bulk requests the data of the sync only
\* after a poll returned status success; when the polling attempts are
\* exhausted without success it returns an empty list without requesting
\* the data
C26_DataOnlyAfterSuccess ==
    /\ \A i \in DOMAIN requests :
          requests[i].req = "data" => PolledSuccess(i - 1)
    /\ (pc = "returned" /\ PollsExhausted) =>
          result = <<>> /\ DataRequests = <<>>

\* a contact export whose polls were all answered pending and that then
\* requested the data and returned the items it got
C26_Witness ==
    /\ stream = "Contact"
    /\ pc = "returned"
    /\ PollsExhausted
    /\ \A r \in Range(requests) : r.req = "poll" => r.ok /\ r.status = "pending"
    /\ DataRequests # <<>>
    /\ result # <<>>

\* what holds: the data is requested only after the polling loop ended, on
\* a success or on its last attempt, at most DOWNLOAD_ATTEMPTS times, and
\* the function always returns a list
C26_DataAfterPollingLoop ==
    /\ ~raised
    /\ Len(DataRequests) <= DOWNLOAD_ATTEMPTS
    /\ \A i \in DOMAIN requests :
          requests[i].req = "data" =>
              \/ PolledSuccess(i - 1)
              \/ Len(SelectSeq(SubSeq(requests, 1, i - 1), LAMBDA r : r.req = "poll"))
                    = SYNC_MAX_ATTEMPTS

-----------------------------------------------------------------------------
(* fetch_activity_export (core/bulk/bulk_email_send.py 50-157) against a
   vendor that need not end the data: the download loop goes on as long as
   the answers are 200 with hasMore. The request log and all_items keep the
   first MaxPages pages; of the requests after them only the parity of
   their number is kept, so that the state space is finite. Every HTTP
   request returns: the steps of the export are weakly fair. *)

\* lines 128-154: one iteration of the download loop
DownloadLive ==
    /\ pc = "download"
    /\ \E d \in DataAnswers :
        LET items == IF d.kind = "ok" THEN ItemsAt(offset, d.n) ELSE <<>>
            logged == Len(DataRequests) < MaxPages
            kept == IF logged THEN all_items \o items ELSE all_items
        IN
        /\ requests' = IF logged
                         THEN Append(requests, Request("data", d.kind = "ok", d.kind,
                                                       offset, items, d.hasMore))
                         ELSE requests
        /\ unlogged' = IF logged THEN unlogged ELSE 1 - unlogged
        /\ all_items' = kept
        /\ IF d.kind = "ok" /\ ~LastPage(stream, d.n, d.hasMore)
             THEN /\ offset' = IF logged THEN offset + limit ELSE offset
                  /\ pc' = "download"
                  /\ UNCHANGED <<outcome, result, raised>>
             ELSE /\ offset' = offset
                  /\ Returned(kept, IF d.kind = "ok" THEN "ok" ELSE "download_error")
    /\ UNCHANGED <<stream, attempt>>
    /\ UNCHANGED <<reportVars, cacheVars, pagerVars, sessVars, parVars>>

InitExportLive == InitBulk /\ stream = "EmailSend"

NextExportLive == GetToken \/ Define \/ SyncStart \/ Poll \/ DownloadLive

SpecExportLive ==
    InitExportLive /\ [][NextExportLive]_vars /\ WF_vars(NextExportLive)

-----------------------------------------------------------------------------
\* Termination of the export

\* C30 as stated: every invocation of fetch_activity_export eventually
\* returns, provided each HTTP request returns, for every behaviour of the
\* vendor, including a data endpoint that keeps answering 200 with
\* hasMore = true
C30_EventuallyReturns == <>(pc = "returned")

\* an export in its download loop after more pages than the log keeps,
\* every one of them answered 200 with hasMore = true
C30_Witness ==
    /\ pc = "download"
    /\ Len(DataRequests) = MaxPages
    /\ \A i \in DOMAIN DataRequests : DataRequests[i].ok /\ DataRequests[i].hasMore
    /\ unlogged = 1

\* what holds: the polling loop is bounded, the export always leaves it
C30_PollingEnds ==
    <>(pc \in {"download", "returned"})

\* the polling loop issues at most SYNC_MAX_ATTEMPTS status requests
C30_PollsBounded ==
    attempt <= SYNC_MAX_ATTEMPTS /\ Len(PollRequests) = attempt

-----------------------------------------------------------------------------
\* The address written to the report (process_data_bulk.py 962-975, 1088)

\* the report rows whose contact has a lookup address equal, ignoring case,
\* to the address of the row
CaseRestored(r) ==
    /\ r.contactId_str \in DOMAIN contact_lookup
    /\ contact_lookup[r.contactId_str].emailAddress # ""
    /\ Lower(contact_lookup[r.contactId_str].emailAddress) = Lower(r.emailAddress)

\* C21 as stated: for every report row whose contact has a cached address
\* equal, ignoring case, to the row's upstream address, the Email Address
\* written to the report is the cache's case-correct value
C21_WrittenAddressIsCached ==
    \A r \in report :
        CaseRestored(r) =>
            r.Email_Address = contact_lookup[r.contactId_str].emailAddress

\* a report with a row of a contact cached with capitals whose written
\* address is the lower-cased one
C21_Witness ==
    /\ rpc = "done"
    /\ \E r \in report :
          /\ CaseRestored(r)
          /\ r.contactId_str \in DOMAIN contact_cache
          /\ contact_cache[r.contactId_str].emailAddress = "C@ok.com"
          /\ r.emailAddress = "C@ok.com"
          /\ r.Email_Address = "c@ok.com"

\* the frame column holds the cached value, the written column its lower case
C21_WrittenAddressIsLowerCase ==
    \A r \in report :
        CaseRestored(r) =>
            /\ r.emailAddress = contact_lookup[r.contactId_str].emailAddress
            /\ r.Email_Address = Lower(contact_lookup[r.contactId_str].emailAddress)

-----------------------------------------------------------------------------
\* The command-line entry point (scripts/run_report.py, run_report.py)

\* the run ended without a report: generate_daily_report returned None
\* (no token, no send stream, no send of the target date) or raised
RunAborted == rpc \in {"aborted", "crashed"}

\* C22 as stated: whenever a report run aborts, the entry point prints a
\* failure reason and ends with a non-zero exit status; it ends with status
\* zero only when a report file was produced
C22_AbortExitsNonZero ==
    cli_pc = "exited" =>
        /\ RunAborted =>
              exit_status # 0 /\ printed # "REPORT GENERATION SUCCESSFUL"
        /\ exit_status = 0 => rpc = "done" /\ ret = "output_file"

\* C22 as the code has it: the entry point ends with status 1 exactly when
\* an exception left generate_daily_report, and then prints the error; when
\* generate_daily_report returned None it prints that no data was found
\* and ends with status 0, as it does after a report was written
C22_NonZeroOnlyOnException ==
    cli_pc = "exited" =>
        /\ exit_status = 1 <=> rpc = "crashed"
        /\ exit_status = 0 <=> rpc \in {"done", "aborted"}
        /\ rpc = "crashed" =>
              printed = "An error occurred during report generation" /\ error # ""
        /\ rpc = "aborted" =>
              printed = "No data found" /\ ret = "None" /\ report = {}
        /\ rpc = "done" =>
              printed = "REPORT GENERATION SUCCESSFUL" /\ ret = "output_file"

\* an entry point that ended with status 0 after a run that found no send
\* of the target date
C22_Witness ==
    /\ cli_pc = "exited"
    /\ rpc = "aborted"
    /\ data # <<>>
    /\ exit_status = 0
    /\ printed = "No data found"

\* an entry point that ended with status 1 after an exception
C22_WitnessException ==
    cli_pc = "exited" /\ rpc = "crashed" /\ exit_status = 1

-----------------------------------------------------------------------------
\* The totals of a send row (process_data_bulk.py 298-317, 981-985)

\* C27: every real-send row of the report has Total Delivered + Total
\* Bouncebacks = Total Sends = 1, with Total Delivered = 1 exactly when the
\* bounce count of the row is 0, and Total Hard Bouncebacks and Total Soft
\* Bouncebacks each at most Total Bouncebacks
C27_SendRowTotals ==
    \A r \in report :
        ~IsForward(r) =>
            /\ r.Total_Sends = 1
            /\ r.Total_Delivered + r.total_bb = r.Total_Sends
            /\ r.Total_Delivered = 1 <=> r.total_bb = 0
            /\ r.hard <= r.total_bb
            /\ r.soft <= r.total_bb

\* a report with a bounced send row, of a key with a hard and a soft
\* bounceback record, next to a delivered one
C27_Witness ==
    /\ rpc = "done"
    /\ \E r \in report :
          /\ ~IsForward(r)
          /\ r.hard = 1 /\ r.soft = 1 /\ r.total_bb = 1
          /\ r.Total_Delivered = 0 /\ r.Total_Sends = 1
    /\ \E r \in report :
          ~IsForward(r) /\ r.total_bb = 0 /\ r.Total_Delivered = 1

-----------------------------------------------------------------------------
\* Engagement of a pair with several sends (process_data_bulk.py 345-355,
\* 463-506)

\* the send rows of a frame for one (assetId, contactId) pair
SendRowsOf(rows, a, c) ==
    {r \in rows : ~IsForward(r) /\ r.assetId_str = a /\ r.contactId_str = c}

\* the send of the pair that the opens belong to: the latest one not after
\* the first open, else the first one
OpenSendOf(group, a, c) ==
    LET first_open == firstOpenDate(data.email_opens, a, c)
        before == {q \in group : q.activityDateParsed <= first_open}
    IN  IF before # {} THEN LastOf(before) ELSE FirstOf(group)

\* the engagement of every pair of the frame is on one send row each: the
\* clicks on the most recent send, the opens on the send they answer, and
\* 0 on every other row of the pair
AttributedOnce(rows) ==
    \A r \in rows :
        ~IsForward(r) =>
            LET a == r.assetId_str
                c == r.contactId_str
                group == SendRowsOf(rows, a, c)
                clicks == CountFor(data.email_clickthroughs, a, c)
                opens == CountFor(data.email_opens, a, c)
            IN  /\ Cardinality({q \in group : q.total_clicks # 0}) <= 1
                /\ Cardinality({q \in group : q.total_opens # 0}) <= 1
                /\ r.total_clicks = IF r = LastOf(group) THEN clicks ELSE 0
                /\ r.total_opens =
                      IF opens > 0 /\ r = OpenSendOf(group, a, c) THEN opens ELSE 0

\* C28: when the same asset was sent several times to the same contact on
\* the target date, at most one send row of the pair carries a non-zero
\* click count (the most recent send) and at most one a non-zero open count
\* (the latest send not after the first open, else the first send); every
\* other row of the pair has 0 opens and 0 clicks
C28_EngagementOnOneSend ==
    /\ rpc \in {"merged", "forwards_detected", "forwards_resolved", "forwards_added"}
          => AttributedOnce(df_sends)
    /\ AttributedOnce(report)

\* a report with two sends of one pair, the opens on the earlier one (sent
\* before the open) and the clicks on the later one
C28_Witness ==
    /\ rpc = "done"
    /\ \E r, q \in report :
          /\ ~IsForward(r) /\ ~IsForward(q)
          /\ SamePair(r, q)
          /\ r.activityDateParsed < q.activityDateParsed
          /\ r.total_opens > 0 /\ r.total_clicks = 0
          /\ q.total_opens = 0 /\ q.total_clicks > 0

\* a report with two sends of one pair, both after the first open: the
\* opens are on the first of them, the clicks on the last
C28_WitnessOpenBeforeSends ==
    /\ rpc = "done"
    /\ \E r, q \in report :
          /\ ~IsForward(r) /\ ~IsForward(q)
          /\ SamePair(r, q) /\ r # q
          /\ Before(r, q)
          /\ r.total_opens > 0 /\ r.total_clicks = 0
          /\ q.total_opens = 0 /\ q.total_clicks > 0
          /\ firstOpenDate(data.email_opens, r.assetId_str, r.contactId_str)
                < r.activityDateParsed

-----------------------------------------------------------------------------
\* Forwards and the sends of the stream (process_data_bulk.py 171-175, 563-571)

\* the send stream as fetched has a send of asset a to contact c dated on
\* the target date
FetchedSendOn(a, c) ==
    \E i \in DOMAIN data.email_sends :
        /\ data.email_sends[i].assetId = a
        /\ data.email_sends[i].contactId = c
        /\ date(to_datetime(data.email_sends[i].activityDate)) = target_date_obj

\* C29 as stated: a forward row is never emitted for an (assetId,
\* contactId) pair for which the fetched send stream contains a send
\* record dated on the target date, including the send records that the
\* engine discards before the join (for example sends without a campaignId)
C29_NoForwardForSentPair ==
    \A r \in report :
        IsForward(r) => ~FetchedSendOn(r.assetId_str, r.contactId_str)

\* a report with a forward row of a pair whose send of the target date
\* came without a campaignId
C29_Witness ==
    /\ rpc = "done"
    /\ \E r \in report :
          /\ IsForward(r)
          /\ \E i \in DOMAIN data.email_sends :
                /\ data.email_sends[i].assetId = r.assetId_str
                /\ data.email_sends[i].contactId = r.contactId_str
                /\ data.email_sends[i].campaignId = ""
                /\ date(to_datetime(data.email_sends[i].activityDate)) = target_date_obj

\* what holds: no forward row for a pair that has a send row in the frame,
\* that is a send of the target date that passed line 172 and the dedup
C29_NoForwardForPairInFrame ==
    /\ \A r \in report :
          IsForward(r) => ~ \E q \in report : ~IsForward(q) /\ SamePair(q, r)
    /\ \A r \in report :
          IsForward(r) => PairOf(r) \notin sentPairs

=============================================================================
